---------------------------- MODULE Spec2Model ----------------------------
(***************************************************************************)
(* A model of the concurrency primitives and the runtime-extensible       *)
(* record framework of iocore/utils (LockPool, PartitionedMap, SharedMap, *)
(* COWMap, writer_ptr, SharedExtendible::Schema, PropertyBlock), of the   *)
(* next-hop directory built on them (update_host_addr, pair_host_addr,    *)
(* HostName, HostRecord::create), of RWLock, of the header dump of the    *)
(* xdebug plugin and of docker_setup.sh.                                  *)
(*                                                                         *)
(* Reading conventions                                                     *)
(*  - A fatal assertion ends the process: `aborted` records which one     *)
(*    tripped and no action is enabled afterwards.                         *)
(*  - std::unordered_map is a function whose DOMAIN is the set of keys    *)
(*    present; operator[] on a missing key inserts the value 0.           *)
(*  - A mutex is the id of the thread that has it locked, or Free; a      *)
(*    mutex left locked by unique_lock::release() has the owner Leaked.   *)
(*  - A scoped handle returned through `T &&` is followed in the caller,  *)
(*    as every caller in the repository uses it, until its scope ends.    *)
(***************************************************************************)
EXTENDS Integers, Sequences, FiniteSets, TLC

(***************************************************************************)
(* Bounds of the model.                                                    *)
(***************************************************************************)
MaxFieldsPerSize == 2
MaxBits == 3
MaxPropBytes == 8
MaxInstances == 2
\* partitions of a PartitionedMap (its num_partitions argument)
NumPartitions == 2
\* values a SharedMap allocates or is handed
MaxHandles == 2
\* mutexes in a pool of write locks (COWMap::write_locks, copy_swap_write_locks)
NumWriteLocks == 2
\* snapshots the copy-on-write threads allocate
MaxSnapshots == 2
\* edits a writer makes to one clone
MaxEdits == 1
MaxListLen == 2
MaxDnsCalls == 3
MaxRecords == 2
MaxRefs == 256
MaxHolders == 2
\* locks a LockPool is constructed with (0..MaxLocks)
MaxLocks == 2
\* the iteration ceiling of the busy-wait of RWLock::lock
MaxSpin == 2
\* how often a thread holds one RWLock for reading, and for writing
MaxHolds == 2
\* blocks of the IO buffer a header is printed into
MaxBlocks == 2
\* blank lines the user may enter at the menu of docker_setup.sh
MaxPrompts == 2
\* callback invocations counted per entry by one visit
MaxVisits == 2
\* calls of pair_host_addr made by one thread
MaxPairCalls == 1
\* AddrRecord objects allocated in one behaviour
MaxAddrRecs == 2
\* calls of init counted per AddrRecord
MaxInits == 2
\* bit fields declared in the byte that is followed
NumByteBits == 2
\* writers one thread holds at a time
MaxNest == 2
\* destroyed writers counted per field
MaxCommits == 1
\* the highest m_strong_ref_count reached where free is followed with its lock
MaxStrong == 3
\* the highest hash of a hostname
MaxHash == 300
\* PropBlockDeclare calls with prop_count = 0 and an init, and with
\* prop_count = 0 and a destroy callback, per schema
MaxZeroDecls == 1

(***************************************************************************)
(* Program constants.                                                      *)
(***************************************************************************)
\* sizeof(Derived_t): the base type the schema extends
SizeofDerived == 12
\* PropertyBlock::status_bits::num_status_bits (initialized, destroyed)
num_status_bits == 2
initialized == 0
destroyed == 1

Names == {"f1", "f2"}
FieldSizes == {1, 4}
\* sizeof(Field_t) of the fields of a layout, one past what uint8_t offsets hold
LayoutSizes == FieldSizes \cup {256}
PropSizes == {4, 8}
PropCounts == {0, 1, 2}
BitCounts == {1, 2}
Callbacks == {"null", "fn"}
FieldAccessEnum == {"ATOMIC", "BIT", "CONST", "COPYSWAP"}

\* the enumerator values of FieldAccessEnum
AccessValue(a) ==
  CASE a = "ATOMIC" -> 0
    [] a = "BIT" -> 1
    [] a = "CONST" -> 2
    [] a = "COPYSWAP" -> 3

VARIABLES
  \* SharedExtendible<Derived_t>::schema
  fields, mem_size_count, mem_offsets, bit_count, alloc_size, instance_count,
  \* PropertyBlock<Derived_t> statics
  s_properties_total_size, s_bits_size, s_instance_count, s_schema,
  \* the process: "" while running, else the assertion that ended it
  aborted,
  \* the last call made and what it returned
  call,
  \* which framework the record type under test derives from
  recordType

seVars == <<fields, mem_size_count, mem_offsets, bit_count, alloc_size, instance_count>>
pbVars == <<s_properties_total_size, s_bits_size, s_instance_count, s_schema>>

VARIABLES
  \* one instance of the record type that is followed from its construction
  \* to its destruction: whether it lives, the bits set in its bit region
  \* (for a PropertyBlock the status bits come first), and the offsets of
  \* the bytes of its property region that are not zero
  inst_live, inst_bits, inst_bytes,
  \* history: how often an init and a destroy callback ran for it, and how
  \* many property elements were declared with an init and with a destroy
  \* callback, the bytes and bits declared, and the properties declared with
  \* a count above zero and the declarations of no element with an init and
  \* with a destroy callback, since the schema was last reset
  inst_inits, inst_destroys, declared

instVars == <<inst_live, inst_bits, inst_bytes, inst_inits, inst_destroys, declared>>
schemaVars == <<seVars, pbVars, aborted, call, recordType, instVars>>
schemaRest == <<seVars, pbVars, call, recordType, instVars>>

VARIABLES
  \* PartitionedMap::part_maps and the owners of the mutexes of part_access
  part_maps, part_access,
  \* each thread's position in the operation it runs, and that call's frame
  map_pc, map_frame,
  \* the next value `new Value_t{}` hands out
  next_handle,
  \* history: per key, the find_or_alloc results since the key was last
  \* popped, and whether a put or operator[] touched the key since then
  foa_log, replaced

mapVars == <<part_maps, part_access, map_pc, map_frame, next_handle,
             foa_log, replaced>>

VARIABLES
  \* which copy-on-write container the threads use: a COWMap, or the
  \* COPYSWAP fields of one SharedExtendible record
  cowKind,
  \* per key (or field) the published snapshot, 0 for none; the contents of
  \* the allocated snapshots; the next snapshot `new` hands out
  stored, heap, next_snap,
  \* owners of the mutexes of the write-lock pool and of the access-lock pool
  write_locks, access_locks,
  \* each thread's writer handle: where it stands, and its key, clone and
  \* the hash its locks are keyed by
  w_pc, w_frame,
  \* each thread's reader handle: the snapshot it holds and, as history, the
  \* contents that snapshot had when it was obtained and whether a writer of
  \* the key was then between obtaining its handle and committing
  r_snap, r_seen, r_during,
  \* the last putTry: a bit flipped by every call, and what it returned
  try_seq, try_out

cowVars == <<cowKind, stored, heap, next_snap, write_locks, access_locks,
             w_pc, w_frame, r_snap, r_seen, r_during, try_seq, try_out>>
readerVars == <<r_snap, r_seen, r_during>>

VARIABLES
  \* the published addr_list field of each HostRecord, and per address the
  \* host_name field of its AddrRecord (Absent while AddrRecord::map has no
  \* entry for the address)
  addr_list, addr_map,
  \* each thread's position in update_host_addr, and that call's frame
  dns_pc, dns_frame,
  \* what the last update_host_addr that returned gave back, and the number
  \* of directory calls made so far
  dns_ret, dns_calls

dnsVars == <<addr_list, addr_map, dns_pc, dns_frame, dns_ret, dns_calls>>

VARIABLES
  \* HostLookupByNameHash: the HostName held under the one host name used,
  \* NoRecord for none; and the HostName objects: life cycle,
  \* m_strong_ref_count, the `destroyed` status bit, the number of
  \* HostNamePtr held by callers and, as history, allocs minus frees
  hn_table, hn_obj

hostVars == <<hn_table, hn_obj>>

VARIABLES
  \* a LockPool<RWLock>: whether it was constructed, and its vector
  \* `mutexes`: per RWLock the owner of the recursive exclusive lock, how
  \* often the owner holds it, and the active-reader counter
  pool_built, mutexes,
  \* each thread's position in RWLock::lock with the lock it is called on
  \* and the iterations it has waited, and per lock the read locks the
  \* thread holds
  lk_frame, rd_held,
  \* what the last getIndex gave back, and the modulus it computed with
  pool_ret

lockVars == <<pool_built, mutexes, lk_frame, rd_held, pool_ret>>

VARIABLES
  \* the position of the plugin in print_request_headers, the transaction
  \* it is called with, the stringstream `output`, and per side the header
  \* handles obtained and released
  hdr_pc, txn, output, mloc

hdrVars == <<hdr_pc, txn, output, mloc>>

VARIABLES
  \* docker_setup.sh: the position of the script, its variables Images and
  \* ImageSelection, the times the menu was shown again, the docker
  \* commands executed so far, and the exit status (-1 while it runs)
  sh_pc, Images, ImageSelection, prompts, docker_log, exit_status

shVars == <<sh_pc, Images, ImageSelection, prompts, docker_log, exit_status>>

VARIABLES
  \* per thread, the frame of its call of PartitionedMap::clear / visit or
  \* COWMap::clear: the loop variable part_idx, the entries of the locked
  \* partition still to be iterated, the write locks taken so far by
  \* lockAll; and as history the callback invocations per key, the
  \* partitions cleared and iterated, and whether the callback said done
  sweep

sweepVars == <<sweep>>

VARIABLES
  \* HostRecord::map (per host name the record stored, NoRecord for none),
  \* which of the two versions of HostRecord::create is built, each thread's
  \* position in create with the host name and the result of its last
  \* call, the records made so far, and as history what the calls returned
  \* per host name
  hr_map, hr_version, hr_pc, hr_frame, hr_made, hr_rets

hrVars == <<hr_map, hr_version, hr_pc, hr_frame, hr_made, hr_rets>>

VARIABLES
  \* the addr_list field of one HostRecord (the list its stored pointer
  \* leads to), the host_name field of each AddrRecord, which version of
  \* the writer is built, each thread's position in pair_host_addr with the
  \* frame of the call, the two lock pools, and as history the addresses
  \* whose pair_host_addr has returned, per thread
  pa_field, pa_addr_host, pa_version, pa_pc, pa_frame, pa_write_locks,
  pa_access_locks, pa_done

pairVars == <<pa_field, pa_addr_host, pa_version, pa_pc, pa_frame,
              pa_write_locks, pa_access_locks, pa_done>>

VARIABLES
  \* AddrRecord::map (per address the record stored, NoRecord for none), the
  \* AddrRecord objects made so far (the host_name field, and as history
  \* the calls of init on it and whether one was made while the record was
  \* in the table), which version of AddrRecord::create is built, and each
  \* thread's position with the frame of its call
  ar_map, ar_recs, ar_version, ar_pc, ar_frame

arVars == <<ar_map, ar_recs, ar_version, ar_pc, ar_frame>>

VARIABLES
  \* one byte of the bit region of a record (the set of its bits that are
  \* 1), which version of the bit write is built, each thread's position in
  \* the write with the bit, the value and the byte it has loaded, and as
  \* history the value last written to each bit by a write that returned
  bw_byte, bw_version, bw_pc, bw_frame, bw_last

bwVars == <<bw_byte, bw_version, bw_pc, bw_frame, bw_last>>

VARIABLES
  \* the writers each thread holds, innermost last (the field, the stack
  \* address of the data_ptr the writer was made from, and the mutex of
  \* copy_swap_write_locks it has locked), whether the thread runs or is
  \* blocked in std::mutex::lock, the owner of each mutex of the pool, and
  \* as history the writers destroyed so far per field (counted up to
  \* MaxCommits)
  nw_held, nw_pc, nw_locks, nw_commits

nwVars == <<nw_held, nw_pc, nw_locks, nw_commits>>

VARIABLES
  \* one HostName and the RWLock getMutex() gives for it: the owner of the
  \* exclusive lock and how often the owner holds it, m_strong_ref_count,
  \* whether HostLookupByNameHash holds the record, and each thread's
  \* position as a caller of free with the path its last free took
  fl_lock, fl_count, fl_in_table, fl_pc, fl_path

flVars == <<fl_lock, fl_count, fl_in_table, fl_pc, fl_path>>

VARIABLES
  \* the number of locks of HostName::s_lock_pool (0 before it is
  \* constructed), for the HostName last allocated its HostID, the index of
  \* the lock alloc took and m_lock_idx, and what getMutex() last gave
  li_size, li_host, li_mutex

liVars == <<li_size, li_host, li_mutex>>

extraVars == <<lockVars, hdrVars, shVars, sweepVars, hrVars, pairVars, arVars, bwVars, nwVars, flVars, liVars>>

dirVars == <<dnsVars, hostVars, extraVars>>

\* everything before the lock pool but `aborted`
coreVars == <<seVars, pbVars, call, recordType, instVars, mapVars, cowVars, dnsVars, hostVars>>

otherVars == <<mapVars, cowVars, dirVars>>

nonSchemaVars == <<otherVars, instVars>>

vars == <<schemaVars, mapVars, cowVars, dirVars>>

(***************************************************************************)
(* std::unordered_map helpers.                                             *)
(***************************************************************************)
EmptyMap == [k \in {} |-> 0]

\* m[k] read after operator[] has inserted a missing key
MapGet(m, k) == IF k \in DOMAIN m THEN m[k] ELSE 0

\* the map after m[k] = v
MapPut(m, k, v) == [x \in DOMAIN m \cup {k} |-> IF x = k THEN v ELSE m[x]]

\* the map after a bare operator[] access of k
MapTouch(m, k) == IF k \in DOMAIN m THEN m ELSE MapPut(m, k, 0)

RECURSIVE SumOver(_, _)
SumOver(S, m) ==
  IF S = {} THEN 0
  ELSE LET k == CHOOSE x \in S : TRUE
       IN k * m[k] + SumOver(S \ {k}, m)

(***************************************************************************)
(* SharedExtendible::Schema                                                *)
(***************************************************************************)

\* "update mem offsets": every region starts after the larger-sized regions
UpdateMemOffsets(msc, mo) ==
  [k \in DOMAIN mo \cup DOMAIN msc |->
     IF k \in DOMAIN msc
     THEN SizeofDerived + (SizeofDerived % 8)
          + SumOver({k2 \in DOMAIN msc : k < k2}, msc)
     ELSE mo[k]]

\* addField without the instance_count assertion; a field's entry keeps, beside
\* the FieldSchema, sizeof(Field_t) of the FieldId it was declared through
AddField_NoAssert(access, size, name) ==
  /\ aborted = ""
  /\ recordType = "SharedExtendible"
  /\ MapGet(mem_size_count, size) < MaxFieldsPerSize
  /\ access = "BIT" => (size = 1 /\ bit_count < MaxBits)
  /\ LET bc == IF access = "BIT" THEN bit_count + 1 ELSE bit_count
         msc1 == IF access = "BIT"
                 THEN MapPut(mem_size_count, 0, (bc + 7) \div 8)
                 ELSE mem_size_count
         offset == (size * MapGet(msc1, size)) % 256
         msc2 == MapPut(msc1, size, MapGet(msc1, size) + 1)
         mo1 == UpdateMemOffsets(msc2, mem_offsets)
         mo2 == MapTouch(mo1, 0)
         msc3 == MapTouch(msc2, 0)
     IN /\ bit_count' = bc
        /\ mem_size_count' = msc3
        /\ mem_offsets' = mo2
        /\ alloc_size' = mo2[0] + msc3[0]
        /\ fields' = MapPut(fields, name,
                            [access |-> access, offset |-> offset, size |-> size])
        /\ call' = [op |-> "addField", ret |-> offset]
  /\ UNCHANGED <<pbVars, instance_count, aborted, recordType, nonSchemaVars>>

\* Schema::addField<Access_t, Field_t>(field_id, field_name)
AddField(access, size, name) ==
  IF instance_count # 0
  THEN \* ink_release_assert(instance_count == 0)
       /\ aborted = ""
       /\ recordType = "SharedExtendible"
       /\ access = "BIT" => size = 1
       /\ aborted' = "addField"
       /\ call' = [op |-> "addField", ret |-> -1]
       /\ UNCHANGED <<seVars, pbVars, recordType, nonSchemaVars>>
  ELSE AddField_NoAssert(access, size, name)

\* Schema::reset() without its test of the instance counter
reset_Unguarded ==
  /\ aborted = ""
  /\ recordType = "SharedExtendible"
  /\ mem_size_count' = EmptyMap
  /\ mem_offsets' = EmptyMap
  /\ fields' = EmptyMap
  /\ bit_count' = 0
  /\ alloc_size' = 0
  /\ call' = [op |-> "reset", ret |-> 1, had |-> Cardinality(DOMAIN fields)]
  /\ UNCHANGED <<pbVars, instance_count, aborted, recordType, nonSchemaVars>>

\* Schema::reset(); the call record keeps, as history, the number of field
\* definitions there were
reset ==
  /\ aborted = ""
  /\ recordType = "SharedExtendible"
  /\ IF instance_count > 0
     THEN /\ call' = [op |-> "reset", ret |-> 0, had |-> Cardinality(DOMAIN fields)]
          /\ UNCHANGED <<fields, mem_size_count, mem_offsets, bit_count, alloc_size>>
     ELSE /\ mem_size_count' = EmptyMap
          /\ mem_offsets' = EmptyMap
          /\ fields' = EmptyMap
          /\ bit_count' = 0
          /\ alloc_size' = 0
          /\ call' = [op |-> "reset", ret |-> 1, had |-> Cardinality(DOMAIN fields)]
  /\ UNCHANGED <<pbVars, instance_count, aborted, recordType, nonSchemaVars>>

\* the keys of mem_offsets that the per-field loops index with operator[]
AccessKeys == {AccessValue(fields[n].access) :
                 n \in {x \in DOMAIN fields : fields[x].access # "BIT"}}

\* the address call_construct and call_destruct hand to the field's function,
\* relative to the instance
ConstructAddress(n) ==
  MapGet(mem_offsets, AccessValue(fields[n].access)) + fields[n].offset

\* the address get, init and writeCopySwap use for the field, relative to the
\* instance
AccessorAddress(n) == MapGet(mem_offsets, fields[n].size) + fields[n].offset

RECURSIVE TouchAll(_, _)
TouchAll(m, S) ==
  IF S = {} THEN m
  ELSE LET k == CHOOSE x \in S : TRUE IN TouchAll(MapTouch(m, k), S \ {k})

\* SharedExtendible() -> Schema::call_construct
call_construct ==
  /\ aborted = ""
  /\ recordType = "SharedExtendible"
  /\ instance_count < MaxInstances
  /\ instance_count' = instance_count + 1
  /\ mem_offsets' = TouchAll(mem_offsets, {0} \cup AccessKeys)
  /\ mem_size_count' = MapTouch(mem_size_count, 0)
  /\ call' = [op |-> "construct", ret |-> alloc_size]
  /\ IF inst_live
     THEN UNCHANGED <<inst_live, inst_bits>>
     ELSE \* memset(ext_as_char_ptr + mem_offsets[0], 0, mem_size_count[0])
          inst_live' = TRUE /\ inst_bits' = {}
  /\ UNCHANGED <<inst_bytes, inst_inits, inst_destroys, declared>>
  /\ UNCHANGED <<pbVars, fields, bit_count, alloc_size, aborted, recordType, otherVars>>

\* ~SharedExtendible() -> Schema::call_destruct
call_destruct ==
  /\ aborted = ""
  /\ recordType = "SharedExtendible"
  /\ instance_count > 0
  /\ instance_count' = instance_count - 1
  /\ mem_offsets' = TouchAll(mem_offsets, AccessKeys)
  /\ call' = [op |-> "destruct", ret |-> 0]
  /\ \E followed \in BOOLEAN :
       /\ followed => inst_live
       /\ ~followed => instance_count > (IF inst_live THEN 1 ELSE 0)
       /\ inst_live' = (inst_live /\ ~followed)
       /\ inst_bits' = IF followed THEN {} ELSE inst_bits
  /\ UNCHANGED <<inst_bytes, inst_inits, inst_destroys, declared>>
  /\ UNCHANGED <<pbVars, fields, mem_size_count, bit_count, alloc_size, aborted, recordType, otherVars>>

(***************************************************************************)
(* PropertyBlock                                                           *)
(***************************************************************************)

\* one Block for the whole property, whatever its count
Blocks_Single(head, prop_count, size, init, destroy) ==
  IF prop_count = 0 THEN <<>>
  ELSE <<[m_offset |-> head, m_init |-> init, m_destroy |-> destroy]>>

\* the Blocks pushed for prop_count elements starting at head
RECURSIVE Blocks(_, _, _, _, _)
Blocks(head, prop_count, size, init, destroy) ==
  IF prop_count = 0 THEN <<>>
  ELSE <<[m_offset |-> head, m_init |-> init, m_destroy |-> destroy]>>
       \o Blocks(head + size, prop_count - 1, size, init, destroy)

\* a declaration of no element with the callback given
ZeroCount(prop_count, callback) == prop_count = 0 /\ callback # "null"

\* PropBlockDeclare<Property_t>(prop_count, init, destroy)
PropBlockDeclare(prop_count, size, init, destroy) ==
  /\ aborted = ""
  /\ recordType = "PropertyBlock"
  /\ IF s_instance_count # 0
     THEN \* ink_assert(s_instance_count == 0)
          /\ aborted' = "PropBlockDeclare"
          /\ call' = [op |-> "PropBlockDeclare", ret |-> -1]
          /\ UNCHANGED <<s_properties_total_size, s_schema, declared>>
     ELSE /\ s_properties_total_size + prop_count * size <= MaxPropBytes
          /\ ZeroCount(prop_count, init) => declared.zero_init < MaxZeroDecls
          /\ ZeroCount(prop_count, destroy) => declared.zero_destroy < MaxZeroDecls
          /\ LET offset == SizeofDerived + s_properties_total_size
             IN /\ s_properties_total_size' = s_properties_total_size + prop_count * size
                /\ s_schema' = IF init # "null" \/ destroy # "null"
                               THEN s_schema \o Blocks(offset, prop_count, size, init, destroy)
                               ELSE s_schema
                /\ call' = [op |-> "PropBlockDeclare", ret |-> offset]
          /\ declared' = [init    |-> declared.init
                                        + (IF init # "null" THEN prop_count ELSE 0),
                          destroy |-> declared.destroy
                                        + (IF destroy # "null" THEN prop_count ELSE 0),
                          bytes   |-> declared.bytes + prop_count * size,
                          bits    |-> declared.bits,
                          props   |-> IF prop_count = 0 THEN declared.props
                                      ELSE Append(declared.props,
                                                  [offset |-> SizeofDerived + s_properties_total_size, count |-> prop_count,
                                                   size |-> size, init |-> init,
                                                   destroy |-> destroy]),
                          zero_init |-> declared.zero_init
                                        + (IF ZeroCount(prop_count, init) THEN 1 ELSE 0),
                          zero_destroy |-> declared.zero_destroy
                                        + (IF ZeroCount(prop_count, destroy) THEN 1 ELSE 0)]
          /\ UNCHANGED aborted
  /\ UNCHANGED <<inst_live, inst_bits, inst_bytes, inst_inits, inst_destroys>>
  /\ UNCHANGED <<seVars, s_bits_size, s_instance_count, recordType, otherVars>>

\* a declaration of bits that also moves the byte offset of later properties
PropBlockDeclareBit_Shift(n) ==
  /\ aborted = ""
  /\ recordType = "PropertyBlock"
  /\ s_instance_count = 0
  /\ s_bits_size + n <= num_status_bits + MaxBits
  /\ s_properties_total_size + 1 <= MaxPropBytes
  /\ s_bits_size' = s_bits_size + n
  /\ s_properties_total_size' = s_properties_total_size + 1
  /\ call' = [op |-> "PropBlockDeclareBit", ret |-> s_bits_size]
  /\ declared' = [declared EXCEPT !.bits = @ + n]
  /\ UNCHANGED <<inst_live, inst_bits, inst_bytes, inst_inits, inst_destroys>>
  /\ UNCHANGED <<seVars, s_instance_count, s_schema, aborted, recordType, otherVars>>

\* PropBlockDeclareBit(bit_count)
PropBlockDeclareBit(n) ==
  /\ aborted = ""
  /\ recordType = "PropertyBlock"
  /\ IF s_instance_count # 0
     THEN \* ink_assert(s_instance_count == 0)
          /\ aborted' = "PropBlockDeclareBit"
          /\ call' = [op |-> "PropBlockDeclareBit", ret |-> -1]
          /\ UNCHANGED <<s_bits_size, declared>>
     ELSE /\ s_bits_size + n <= num_status_bits + MaxBits
          /\ s_bits_size' = s_bits_size + n
          /\ call' = [op |-> "PropBlockDeclareBit", ret |-> s_bits_size]
          /\ declared' = [declared EXCEPT !.bits = @ + n]
          /\ UNCHANGED aborted
  /\ UNCHANGED <<inst_live, inst_bits, inst_bytes, inst_inits, inst_destroys>>
  /\ UNCHANGED <<seVars, s_properties_total_size, s_instance_count, s_schema, recordType, otherVars>>

\* the callbacks a loop over getSchema() runs: the Blocks whose m_init
\* (m_destroy) is set
InitBlocks == Cardinality({i \in 1..Len(s_schema) : s_schema[i].m_init # "null"})
DestroyBlocks == Cardinality({i \in 1..Len(s_schema) : s_schema[i].m_destroy # "null"})

\* propBlockInit() on an instance with the bits given: the bits afterwards
\* and the number of init callbacks run
propBlockInitBits(bits) == bits \cup {initialized}
propBlockInitRuns(bits) == IF initialized \in bits THEN 0 ELSE InitBlocks

\* propBlockDestroy() likewise
propBlockDestroyBits(bits) == bits \cup {destroyed}
propBlockDestroyRuns(bits) == IF destroyed \in bits THEN 0 ELSE DestroyBlocks

\* the bytes of the element of type Property_t at an offset: the size is
\* that of the property declared over the offset
ElementBytes(off) ==
  LET covering == {i \in 1..Len(declared.props) :
                     /\ declared.props[i].offset <= off
                     /\ off < declared.props[i].offset
                                + declared.props[i].count * declared.props[i].size}
  IN UNION {off..(off + declared.props[i].size - 1) : i \in covering}

\* the bytes the init callbacks write, each its own element
InitWrites ==
  UNION {ElementBytes(s_schema[i].m_offset) :
           i \in {k \in 1..Len(s_schema) : s_schema[k].m_init # "null"}}

propBlockInitBytes(bits, bytes) ==
  IF initialized \in bits THEN bytes ELSE bytes \cup InitWrites

\* what ::operator new may hand out: memory that is clean, or that still
\* holds what was there before
RawMemory ==
  {[bytes |-> {}, bits |-> {}],
   [bytes |-> SizeofDerived..(SizeofDerived + s_properties_total_size - 1),
    bits |-> 0..(s_bits_size - 1)]}

\* an allocation that leaves the block as ::operator new handed it out
operator_new_NoMemset(raw) == raw

\* operator new(size): the block is set to zero
operator_new(raw) == [bytes |-> {}, bits |-> {}]

\* new Derived(): operator new zeroes the block, PropertyBlock() counts the
\* instance, Derived() calls propBlockInit()
PropertyBlockCtor ==
  /\ aborted = ""
  /\ recordType = "PropertyBlock"
  /\ s_instance_count < MaxInstances
  /\ s_instance_count' = s_instance_count + 1
  /\ IF inst_live
     THEN /\ call' = [op |-> "PropertyBlock", ret |-> 0, dirty |-> FALSE]
          /\ UNCHANGED <<inst_live, inst_bits, inst_bytes, inst_inits, inst_destroys>>
     ELSE \E raw \in RawMemory :
            LET mem == operator_new(raw)
            IN /\ call' = [op |-> "PropertyBlock", ret |-> 0, dirty |-> raw.bits # {}]
               /\ inst_live' = TRUE
               /\ inst_bits' = propBlockInitBits(mem.bits)
               /\ inst_bytes' = propBlockInitBytes(mem.bits, mem.bytes)
               /\ inst_inits' = propBlockInitRuns(mem.bits)
               /\ inst_destroys' = 0
  /\ UNCHANGED <<seVars, s_properties_total_size, s_bits_size, s_schema, aborted, recordType, declared, otherVars>>

\* ~PropertyBlock(): the instance is counted out and propBlockDestroy()
\* runs
PropertyBlockDtor ==
  /\ aborted = ""
  /\ recordType = "PropertyBlock"
  /\ s_instance_count > 0
  /\ s_instance_count' = s_instance_count - 1
  /\ call' = [op |-> "~PropertyBlock", ret |-> 0]
  /\ \E followed \in BOOLEAN :
       /\ followed => inst_live
       /\ ~followed => s_instance_count > (IF inst_live THEN 1 ELSE 0)
       /\ inst_live' = (inst_live /\ ~followed)
       /\ inst_bits' = IF followed THEN {} ELSE inst_bits
       /\ inst_bytes' = IF followed THEN {} ELSE inst_bytes
       /\ inst_destroys' = IF followed THEN inst_destroys + propBlockDestroyRuns(inst_bits)
                           ELSE inst_destroys
  /\ UNCHANGED <<seVars, s_properties_total_size, s_bits_size, s_schema, aborted, recordType, inst_inits, declared, otherVars>>

\* PropertyBlock::resetSchema(); the call record keeps, as history, the
\* bytes and bits that were declared
resetSchema ==
  /\ aborted = ""
  /\ recordType = "PropertyBlock"
  /\ IF s_instance_count > 0
     THEN /\ call' = [op |-> "resetSchema", ret |-> 0,
                      had |-> s_properties_total_size + s_bits_size - num_status_bits]
          /\ UNCHANGED <<s_properties_total_size, s_bits_size, s_schema, declared>>
     ELSE /\ s_properties_total_size' = 0
          /\ s_bits_size' = num_status_bits
          /\ s_schema' = <<>>
          /\ call' = [op |-> "resetSchema", ret |-> 1,
                      had |-> s_properties_total_size + s_bits_size - num_status_bits]
          /\ declared' = [init |-> 0, destroy |-> 0, bytes |-> 0, bits |-> 0, props |-> <<>>,
                          zero_init |-> 0, zero_destroy |-> 0]
  /\ UNCHANGED <<inst_live, inst_bits, inst_bytes, inst_inits, inst_destroys>>
  /\ UNCHANGED <<seVars, s_instance_count, aborted, recordType, otherVars>>

\* propBlockInit() called once more on the instance followed
propBlockInit ==
  /\ aborted = ""
  /\ recordType = "PropertyBlock"
  /\ inst_live
  /\ inst_bits' = propBlockInitBits(inst_bits)
  /\ inst_bytes' = propBlockInitBytes(inst_bits, inst_bytes)
  /\ inst_inits' = inst_inits + propBlockInitRuns(inst_bits)
  /\ call' = [op |-> "propBlockInit", ret |-> 0]
  /\ UNCHANGED <<seVars, pbVars, aborted, recordType, inst_live, inst_destroys, declared, otherVars>>

\* HostName::reset() on the instance followed, by a caller that holds the
\* record's lock: propBlockDestroy(); m_addrs.clear(); propBlockInit()
HostName_reset ==
  /\ aborted = ""
  /\ recordType = "PropertyBlock"
  /\ inst_live
  /\ LET destroyed_bits == propBlockDestroyBits(inst_bits)
     IN /\ inst_destroys' = inst_destroys + propBlockDestroyRuns(inst_bits)
        /\ inst_inits' = inst_inits + propBlockInitRuns(destroyed_bits)
        /\ inst_bytes' = propBlockInitBytes(destroyed_bits, inst_bytes)
        /\ inst_bits' = propBlockInitBits(destroyed_bits)
  /\ call' = [op |-> "HostName::reset", ret |-> 0]
  /\ UNCHANGED <<seVars, pbVars, aborted, recordType, inst_live, declared, otherVars>>

\* propGetBit(offset) on the instance followed
propGetBit(bits, offset) == offset \in bits

\* propPutBit(offset, val) that writes the whole byte of the bit
propPutBit_Byte(offset, val) ==
  /\ aborted = ""
  /\ recordType = "PropertyBlock"
  /\ inst_live
  /\ offset \in num_status_bits..(s_bits_size - 1)
  /\ inst_bits' = IF val
                  THEN inst_bits \cup {b \in 0..(s_bits_size - 1) : b \div 8 = offset \div 8}
                  ELSE {b \in inst_bits : b \div 8 # offset \div 8}
  /\ call' = [op |-> "propPutBit", ret |-> 0, bit |-> offset]
  /\ UNCHANGED <<seVars, pbVars, aborted, recordType, inst_live, inst_bytes, inst_inits, inst_destroys, declared, otherVars>>

\* propPutBit(offset, val) on the instance followed, for a declared bit
propPutBit(offset, val) ==
  /\ aborted = ""
  /\ recordType = "PropertyBlock"
  /\ inst_live
  /\ offset \in num_status_bits..(s_bits_size - 1)
  /\ inst_bits' = IF val THEN inst_bits \cup {offset} ELSE inst_bits \ {offset}
  /\ call' = [op |-> "propPutBit", ret |-> 0, bit |-> offset]
  /\ UNCHANGED <<seVars, pbVars, aborted, recordType, inst_live, inst_bytes, inst_inits, inst_destroys, declared, otherVars>>

\* the declared BIT fields of the SharedExtendible type
BitFields == {n \in DOMAIN fields : fields[n].access = "BIT"}

\* readBit(field) on the instance followed
readBit(bits, name) == fields[name].offset \in bits

\* writeBit(field, val) on the instance followed; the byte written to is
\* inside the bit region
writeBit(name, val) ==
  /\ aborted = ""
  /\ recordType = "SharedExtendible"
  /\ inst_live
  /\ name \in BitFields
  /\ fields[name].offset \div 8 < MapGet(mem_size_count, 0)
  /\ inst_bits' = IF val THEN inst_bits \cup {fields[name].offset}
                  ELSE inst_bits \ {fields[name].offset}
  /\ call' = [op |-> "writeBit", ret |-> 0, bit |-> name]
  /\ UNCHANGED <<seVars, pbVars, aborted, recordType, inst_live, inst_bytes, inst_inits, inst_destroys, declared, otherVars>>

(***************************************************************************)
(* The schema specification: declarations, instances and resets of one    *)
(* SharedExtendible type and one PropertyBlock type.                       *)
(***************************************************************************)
SchemaInit ==
  /\ fields = EmptyMap
  /\ mem_size_count = EmptyMap
  /\ mem_offsets = EmptyMap
  /\ bit_count = 0
  /\ alloc_size = SizeofDerived
  /\ instance_count = 0
  /\ s_properties_total_size = 0
  /\ s_bits_size = num_status_bits
  /\ s_instance_count = 0
  /\ s_schema = <<>>
  /\ aborted = ""
  /\ call = [op |-> "none", ret |-> 0]
  /\ recordType \in {"SharedExtendible", "PropertyBlock"}

(***************************************************************************)
(* PartitionedMap and SharedMap, run by a set of threads.  A thread enters *)
(* an operation by taking the partition lock (getPartMap, which blocks     *)
(* while the lock is held); it then works on the sub-map and gives the     *)
(* lock back as its scoped lock is destroyed on return.                    *)
(***************************************************************************)
Threads == {1, 2}
Keys == {1, 2}
Free == 0
MapOps == {"find", "put", "pop", "operator[]", "find_or_alloc"}
NoFrame == [op |-> "none", key |-> 0]
nonMapVars == <<schemaRest, cowVars, dirVars>>

\* std::hash<Key_t>()(key)
Hash(key) == key

\* a pool that hands every key the same lock
getIndex_Single(key_hash) == 0

\* LockPool::getIndex; Index_t is uint8_t
getIndex(key_hash) == (key_hash % NumPartitions) % 256

PartOf(t) == getIndex(Hash(map_frame[t].key))
MapErase(m, k) == [x \in DOMAIN m \ {k} |-> m[x]]

\* ~unique_lock: the mutex the thread's scoped lock owns is unlocked
Unlock(t) == [p \in DOMAIN part_access |->
                IF part_access[p] = t THEN Free ELSE part_access[p]]

\* the find_or_alloc history of a key; once it shows two allocations or two
\* handles, further results add nothing
Logged(log, e) ==
  IF Cardinality({x \in log : x[1] = "false"}) > 1 \/ Cardinality({x[2] : x \in log}) > 1
  THEN log ELSE log \cup {e}

\* an operation that walks into the sub-map without taking the lock
getPartMap_NoLock(t, name, key) ==
  /\ aborted = ""
  /\ map_pc[t] = "idle"
  /\ map_frame' = [map_frame EXCEPT ![t] = [op |-> name, key |-> key]]
  /\ map_pc' = [map_pc EXCEPT ![t] = "body"]
  /\ UNCHANGED <<part_maps, part_access, next_handle, foa_log, replaced>>
  /\ UNCHANGED <<aborted, nonMapVars>>

\* a thread calls operation `name` on `key`; PartitionedMap::getPartMap
\* blocks until the partition's mutex is free and locks it
getPartMap(t, name, key) ==
  /\ aborted = ""
  /\ map_pc[t] = "idle"
  /\ part_access[getIndex(Hash(key))] = Free
  /\ part_access' = [part_access EXCEPT ![getIndex(Hash(key))] = t]
  /\ map_frame' = [map_frame EXCEPT ![t] = [op |-> name, key |-> key]]
  /\ map_pc' = [map_pc EXCEPT ![t] = "body"]
  /\ UNCHANGED <<part_maps, next_handle, foa_log, replaced>>
  /\ UNCHANGED <<aborted, nonMapVars>>

\* PartitionedMap::find: reads the sub-map; the value goes to the caller
find(t) ==
  /\ aborted = ""
  /\ map_pc[t] = "body" /\ map_frame[t].op = "find"
  /\ part_access' = Unlock(t)
  /\ map_pc' = [map_pc EXCEPT ![t] = "idle"]
  /\ map_frame' = [map_frame EXCEPT ![t] = NoFrame]
  /\ UNCHANGED <<part_maps, next_handle, foa_log, replaced>>
  /\ UNCHANGED <<aborted, nonMapVars>>

\* PartitionedMap::put: getPartMap(key, lck)[key] = val, val being a value
\* the caller holds: empty, one allocated earlier, or one it has just made
put(t, val) ==
  /\ aborted = ""
  /\ map_pc[t] = "body" /\ map_frame[t].op = "put"
  /\ val <= next_handle /\ val <= MaxHandles
  /\ next_handle' = IF val = next_handle THEN next_handle + 1 ELSE next_handle
  /\ part_maps' = [part_maps EXCEPT ![PartOf(t)] = MapPut(@, map_frame[t].key, val)]
  /\ replaced' = [replaced EXCEPT ![map_frame[t].key] = TRUE]
  /\ part_access' = Unlock(t)
  /\ map_pc' = [map_pc EXCEPT ![t] = "idle"]
  /\ map_frame' = [map_frame EXCEPT ![t] = NoFrame]
  /\ UNCHANGED foa_log
  /\ UNCHANGED <<aborted, nonMapVars>>

\* PartitionedMap::pop: val = map[key]; map.erase(key)
pop(t) ==
  /\ aborted = ""
  /\ map_pc[t] = "body" /\ map_frame[t].op = "pop"
  /\ part_maps' = [part_maps EXCEPT ![PartOf(t)] = MapErase(@, map_frame[t].key)]
  /\ foa_log' = [foa_log EXCEPT ![map_frame[t].key] = {}]
  /\ replaced' = [replaced EXCEPT ![map_frame[t].key] = FALSE]
  /\ part_access' = Unlock(t)
  /\ map_pc' = [map_pc EXCEPT ![t] = "idle"]
  /\ map_frame' = [map_frame EXCEPT ![t] = NoFrame]
  /\ UNCHANGED next_handle
  /\ UNCHANGED <<aborted, nonMapVars>>

\* PartitionedMap::operator[] (non-const): the value is inserted empty when
\* the key is missing, and the caller is left with a reference to it
operator_index(t) ==
  /\ aborted = ""
  /\ map_pc[t] = "body" /\ map_frame[t].op = "operator[]"
  /\ part_maps' = [part_maps EXCEPT ![PartOf(t)] = MapTouch(@, map_frame[t].key)]
  /\ replaced' = [replaced EXCEPT ![map_frame[t].key] =
                    @ \/ map_frame[t].key \notin DOMAIN part_maps[PartOf(t)]]
  /\ part_access' = Unlock(t)
  /\ map_pc' = [map_pc EXCEPT ![t] = "ref"]
  /\ UNCHANGED <<map_frame, next_handle, foa_log>>
  /\ UNCHANGED <<aborted, nonMapVars>>

\* the caller of the non-const operator[] reads the value, or writes val to
\* it, through the reference it was given.  A reference to an erased element
\* dangles: its use is either without visible effect or ends the process.
UseRef(t, write, val, crash) ==
  /\ aborted = ""
  /\ map_pc[t] = "ref"
  /\ val < next_handle
  /\ write = FALSE => val = 0
  /\ LET key == map_frame[t].key
         map == part_maps[PartOf(t)]
     IN IF key \in DOMAIN map
        THEN /\ crash = FALSE
             /\ part_maps' = [part_maps EXCEPT ![PartOf(t)] =
                                IF write THEN MapPut(@, key, val) ELSE @]
             /\ replaced' = [replaced EXCEPT ![key] = @ \/ write]
             /\ UNCHANGED aborted
        ELSE /\ write = FALSE
             /\ aborted' = IF crash THEN "operator[]" ELSE aborted
             /\ UNCHANGED <<part_maps, replaced>>
  /\ map_pc' = [map_pc EXCEPT ![t] = "idle"]
  /\ map_frame' = [map_frame EXCEPT ![t] = NoFrame]
  /\ UNCHANGED <<part_access, next_handle, foa_log>>
  /\ UNCHANGED nonMapVars

\* SharedMap::find_or_alloc, the lookup: an existing value is returned
find_or_alloc_find(t) ==
  /\ aborted = ""
  /\ map_pc[t] = "body" /\ map_frame[t].op = "find_or_alloc"
  /\ LET key == map_frame[t].key
         map == part_maps[PartOf(t)]
     IN IF key \in DOMAIN map
        THEN /\ foa_log' = [foa_log EXCEPT ![key] = Logged(@, <<"true", map[key]>>)]
             /\ part_access' = Unlock(t)
             /\ map_pc' = [map_pc EXCEPT ![t] = "idle"]
             /\ map_frame' = [map_frame EXCEPT ![t] = NoFrame]
        ELSE /\ map_pc' = [map_pc EXCEPT ![t] = "alloc"]
             /\ UNCHANGED <<foa_log, part_access, map_frame>>
  /\ UNCHANGED <<part_maps, next_handle, replaced>>
  /\ UNCHANGED <<aborted, nonMapVars>>

\* SharedMap::find_or_alloc, the miss: a new value is allocated and stored
find_or_alloc_alloc(t) ==
  /\ aborted = ""
  /\ map_pc[t] = "alloc"
  /\ next_handle <= MaxHandles
  /\ part_maps' = [part_maps EXCEPT ![PartOf(t)] =
                     MapPut(@, map_frame[t].key, next_handle)]
  /\ foa_log' = [foa_log EXCEPT ![map_frame[t].key] =
                   Logged(@, <<"false", next_handle>>)]
  /\ next_handle' = next_handle + 1
  /\ part_access' = Unlock(t)
  /\ map_pc' = [map_pc EXCEPT ![t] = "idle"]
  /\ map_frame' = [map_frame EXCEPT ![t] = NoFrame]
  /\ UNCHANGED replaced
  /\ UNCHANGED <<aborted, nonMapVars>>

MapInit ==
  /\ part_maps = [p \in 0..(NumPartitions - 1) |-> EmptyMap]
  /\ part_access = [p \in 0..(NumPartitions - 1) |-> Free]
  /\ map_pc = [t \in Threads |-> "idle"]
  /\ map_frame = [t \in Threads |-> NoFrame]
  /\ next_handle = 1
  /\ foa_log = [k \in Keys |-> {}]
  /\ replaced = [k \in Keys |-> FALSE]

(***************************************************************************)
(* Copy-on-write: COWMap with its Writer handle, and the COPYSWAP fields   *)
(* of a SharedExtendible record with writer_ptr.  A snapshot is a number   *)
(* and heap gives its contents; an edit adds one to the contents.          *)
(***************************************************************************)
CowKeys == {1, 2}
\* where the local `data_ptr` of writeCopySwap may lie on a thread's stack
StackAddrs == {0, 1}
\* a mutex that is locked and that no unique_lock owns any more
Leaked == -1
NoWriter == [key |-> 0, clone |-> 0, hash |-> 0]
NoTry == [tid |-> 0, key |-> 0, ret |-> "none"]
nonCowVars == <<schemaRest, mapVars, dirVars>>

\* the value a COPYSWAP field is constructed with
InitialSnap(k) == MaxSnapshots + k

\* LockPool::getMutex(size_t key_hash): mutexes[key_hash % size()]
getMutex(pool_size, key_hash) == key_hash % pool_size

\* the mutexes a writer handle locks: its write lock, and the lock it
\* publishes under (the partition of COWMap::map, or copy_swap_access_locks)
WriteLockOf(t) == getMutex(NumWriteLocks, w_frame[t].hash)
AccessLockOf(t) ==
  IF cowKind = "COWMap" THEN getIndex(Hash(w_frame[t].key))
  ELSE getMutex(NumPartitions, w_frame[t].hash)

\* the contents a clone starts with: a copy of the snapshot, or Value_t()
CloneOf(snap) == IF snap = 0 THEN 0 ELSE heap[snap]

\* a get that waits for the key's write lock
COWMap_get_WriteLocked(t, k) ==
  /\ aborted = "" /\ cowKind = "COWMap"
  /\ w_pc[t] = "idle"
  /\ write_locks[getMutex(NumWriteLocks, getIndex(Hash(k)))] = Free
  /\ access_locks[getIndex(Hash(k))] = Free
  /\ r_snap' = [r_snap EXCEPT ![t] = stored[k]]
  /\ r_seen' = [r_seen EXCEPT ![t] = CloneOf(stored[k])]
  /\ r_during' = [r_during EXCEPT ![t] =
                    \E w \in Threads : w_pc[w] = "edit" /\ w_frame[w].key = k]
  /\ UNCHANGED <<cowKind, stored, heap, next_snap, write_locks, access_locks,
                 w_pc, w_frame, try_seq, try_out>>
  /\ UNCHANGED <<aborted, nonCowVars>>

\* COWMap::get: the published snapshot, read under the partition lock
COWMap_get(t, k) ==
  /\ aborted = "" /\ cowKind = "COWMap"
  /\ w_pc[t] = "idle"
  /\ access_locks[getIndex(Hash(k))] = Free
  /\ r_snap' = [r_snap EXCEPT ![t] = stored[k]]
  /\ r_seen' = [r_seen EXCEPT ![t] = CloneOf(stored[k])]
  /\ r_during' = [r_during EXCEPT ![t] =
                    \E w \in Threads : w_pc[w] = "edit" /\ w_frame[w].key = k]
  /\ UNCHANGED <<cowKind, stored, heap, next_snap, write_locks, access_locks,
                 w_pc, w_frame, try_seq, try_out>>
  /\ UNCHANGED <<aborted, nonCowVars>>

\* SharedExtendible::get(FieldId<COPYSWAP>): the access lock is keyed by the
\* field's address, this + field.offset
get_COPYSWAP(t, k) ==
  /\ aborted = "" /\ cowKind = "SharedExtendible"
  /\ w_pc[t] = "idle"
  /\ access_locks[getMutex(NumPartitions, k)] = Free
  /\ r_snap' = [r_snap EXCEPT ![t] = stored[k]]
  /\ r_seen' = [r_seen EXCEPT ![t] = CloneOf(stored[k])]
  /\ r_during' = [r_during EXCEPT ![t] =
                    \E w \in Threads : w_pc[w] = "edit" /\ w_frame[w].key = k]
  /\ UNCHANGED <<cowKind, stored, heap, next_snap, write_locks, access_locks,
                 w_pc, w_frame, try_seq, try_out>>
  /\ UNCHANGED <<aborted, nonCowVars>>

\* a writer that edits the published snapshot instead of a copy of it
writerLock_InPlace(t, k) ==
  /\ aborted = "" /\ cowKind = "COWMap"
  /\ w_pc[t] = "idle"
  /\ stored[k] # 0
  /\ write_locks[getMutex(NumWriteLocks, getIndex(Hash(k)))] = Free
  /\ access_locks[getIndex(Hash(k))] = Free
  /\ write_locks' = [write_locks EXCEPT ![getMutex(NumWriteLocks, getIndex(Hash(k)))] = t]
  /\ w_frame' = [w_frame EXCEPT ![t] = [key |-> k, clone |-> stored[k], hash |-> Hash(k)]]
  /\ w_pc' = [w_pc EXCEPT ![t] = "edit"]
  /\ UNCHANGED <<cowKind, stored, heap, next_snap, access_locks, readerVars,
                 try_seq, try_out>>
  /\ UNCHANGED <<aborted, nonCowVars>>

\* COWMap::writerLock: blocks on the key's write lock, then clones the
\* published value (or makes a new one) into a Writer
writerLock(t, k) ==
  /\ aborted = "" /\ cowKind = "COWMap"
  /\ w_pc[t] = "idle"
  /\ next_snap <= MaxSnapshots
  /\ write_locks[getMutex(NumWriteLocks, getIndex(Hash(k)))] = Free
  /\ access_locks[getIndex(Hash(k))] = Free
  /\ write_locks' = [write_locks EXCEPT ![getMutex(NumWriteLocks, getIndex(Hash(k)))] = t]
  /\ heap' = MapPut(heap, next_snap, CloneOf(stored[k]))
  /\ next_snap' = next_snap + 1
  /\ w_frame' = [w_frame EXCEPT ![t] = [key |-> k, clone |-> next_snap, hash |-> Hash(k)]]
  /\ w_pc' = [w_pc EXCEPT ![t] = "edit"]
  /\ UNCHANGED <<cowKind, stored, access_locks, readerVars, try_seq, try_out>>
  /\ UNCHANGED <<aborted, nonCowVars>>

\* SharedExtendible::writeCopySwap: `auto data_ptr` is a copy of the field's
\* pointer local to the call, at stack address addr; writer_ptr keys its
\* write lock by that address and clones the value
writeCopySwap(t, k, addr) ==
  /\ aborted = "" /\ cowKind = "SharedExtendible"
  /\ w_pc[t] = "idle"
  /\ next_snap <= MaxSnapshots
  /\ write_locks[getMutex(NumWriteLocks, addr)] = Free
  /\ write_locks' = [write_locks EXCEPT ![getMutex(NumWriteLocks, addr)] = t]
  /\ heap' = MapPut(heap, next_snap, CloneOf(stored[k]))
  /\ next_snap' = next_snap + 1
  /\ w_frame' = [w_frame EXCEPT ![t] = [key |-> k, clone |-> next_snap, hash |-> addr]]
  /\ w_pc' = [w_pc EXCEPT ![t] = "edit"]
  /\ UNCHANGED <<cowKind, stored, access_locks, readerVars, try_seq, try_out>>
  /\ UNCHANGED <<aborted, nonCowVars>>

\* the holder of a writer handle changes the value it points to
Edit(t) ==
  /\ aborted = ""
  /\ w_pc[t] = "edit"
  /\ heap[w_frame[t].clone] < MaxEdits
  /\ heap' = [heap EXCEPT ![w_frame[t].clone] = @ + 1]
  /\ UNCHANGED <<cowKind, stored, next_snap, write_locks, access_locks, w_pc,
                 w_frame, readerVars, try_seq, try_out>>
  /\ UNCHANGED <<aborted, nonCowVars>>

\* the locks a destroyed writer handle lets go of
Released(locks, t) == [s \in DOMAIN locks |-> IF locks[s] = t THEN Free ELSE locks[s]]

\* COWMap::Writer::~Writer, first half: the lock is owned, so map->put takes
\* the partition lock of the key
Writer_dtor_getPartMap(t) ==
  /\ aborted = "" /\ cowKind = "COWMap"
  /\ w_pc[t] = "edit"
  /\ access_locks[AccessLockOf(t)] = Free
  /\ access_locks' = [access_locks EXCEPT ![AccessLockOf(t)] = t]
  /\ w_pc' = [w_pc EXCEPT ![t] = "commit"]
  /\ UNCHANGED <<cowKind, stored, heap, next_snap, write_locks, w_frame, readerVars, try_seq, try_out>>
  /\ UNCHANGED <<aborted, nonCowVars>>

\* COWMap::Writer::~Writer, second half: map->put(key, val_ptr) stores the
\* clone; the partition lock and then the write lock are unlocked
Writer_dtor_put(t) ==
  /\ aborted = "" /\ cowKind = "COWMap"
  /\ w_pc[t] = "commit"
  /\ stored' = [stored EXCEPT ![w_frame[t].key] = w_frame[t].clone]
  /\ access_locks' = Released(access_locks, t)
  /\ write_locks' = Released(write_locks, t)
  /\ w_pc' = [w_pc EXCEPT ![t] = "idle"]
  /\ w_frame' = [w_frame EXCEPT ![t] = NoWriter]
  /\ UNCHANGED <<cowKind, heap, next_snap, readerVars, try_seq, try_out>>
  /\ UNCHANGED <<aborted, nonCowVars>>

\* COWMap::Writer::abortCommit: lock.release() gives up ownership of the
\* mutex without unlocking it; `delete this` then finds no lock owned and
\* publishes nothing.  Deleting an object that was not allocated with new
\* may end the process.
abortCommit(t, crash) ==
  /\ cowKind = "COWMap"
  /\ aborted = ""
  /\ w_pc[t] = "edit"
  /\ write_locks' = [write_locks EXCEPT ![WriteLockOf(t)] = Leaked]
  /\ heap' = MapErase(heap, w_frame[t].clone)
  /\ aborted' = IF crash THEN "abortCommit" ELSE aborted
  /\ w_pc' = [w_pc EXCEPT ![t] = "idle"]
  /\ w_frame' = [w_frame EXCEPT ![t] = NoWriter]
  /\ UNCHANGED <<cowKind, stored, next_snap, access_locks, readerVars,
                 try_seq, try_out>>
  /\ UNCHANGED nonCowVars

\* writer_ptr::~writer_ptr, first half: the access lock keyed by &swap_loc
writer_ptr_dtor_lock(t) ==
  /\ aborted = "" /\ cowKind = "SharedExtendible"
  /\ w_pc[t] = "edit"
  /\ access_locks[AccessLockOf(t)] = Free
  /\ access_locks' = [access_locks EXCEPT ![AccessLockOf(t)] = t]
  /\ w_pc' = [w_pc EXCEPT ![t] = "commit"]
  /\ UNCHANGED <<cowKind, stored, heap, next_snap, write_locks, w_frame, readerVars, try_seq, try_out>>
  /\ UNCHANGED <<aborted, nonCowVars>>

\* writer_ptr::~writer_ptr, second half: swap_loc is assigned.  swap_loc
\* refers to the local `data_ptr` of writeCopySwap, which is gone: the
\* field's own pointer is not written, and the write to the dead stack slot
\* either goes unnoticed or ends the process.  Both locks are unlocked.
writer_ptr_dtor_swap(t, crash) ==
  /\ cowKind = "SharedExtendible"
  /\ aborted = ""
  /\ w_pc[t] = "commit"
  /\ heap' = MapErase(heap, w_frame[t].clone)
  /\ aborted' = IF crash THEN "~writer_ptr" ELSE aborted
  /\ access_locks' = Released(access_locks, t)
  /\ write_locks' = Released(write_locks, t)
  /\ w_pc' = [w_pc EXCEPT ![t] = "idle"]
  /\ w_frame' = [w_frame EXCEPT ![t] = NoWriter]
  /\ UNCHANGED <<cowKind, stored, next_snap, readerVars, try_seq, try_out>>
  /\ UNCHANGED nonCowVars

\* writer_ptr::abort: write_lock.release(); delete this
writer_ptr_abort(t, crash) ==
  /\ cowKind = "SharedExtendible"
  /\ aborted = ""
  /\ w_pc[t] = "edit"
  /\ write_locks' = [write_locks EXCEPT ![WriteLockOf(t)] = Leaked]
  /\ heap' = MapErase(heap, w_frame[t].clone)
  /\ aborted' = IF crash THEN "abort" ELSE aborted
  /\ w_pc' = [w_pc EXCEPT ![t] = "idle"]
  /\ w_frame' = [w_frame EXCEPT ![t] = NoWriter]
  /\ UNCHANGED <<cowKind, stored, next_snap, access_locks, readerVars,
                 try_seq, try_out>>
  /\ UNCHANGED nonCowVars

\* COWMap::putTry(key, current, write_value), current being the snapshot the
\* caller last read.  The two refusals return false.  After map.put the
\* function ends without a return statement: the caller reads an
\* indeterminate value, ret.  try_lock is unlocked at the end of the scope.
putTry(t, k, ret) ==
  /\ aborted = "" /\ cowKind = "COWMap"
  /\ w_pc[t] = "idle"
  /\ access_locks[getIndex(Hash(k))] = Free
  /\ IF write_locks[getMutex(NumWriteLocks, getIndex(Hash(k)))] # Free
        \/ stored[k] # r_snap[t]
     THEN /\ ret = "false"
          /\ UNCHANGED <<stored, heap, next_snap>>
     ELSE /\ next_snap <= MaxSnapshots
          /\ heap' = MapPut(heap, next_snap, 0)
          /\ stored' = [stored EXCEPT ![k] = next_snap]
          /\ next_snap' = next_snap + 1
  /\ try_out' = [tid |-> t, key |-> k, ret |-> ret]
  /\ try_seq' = 1 - try_seq
  /\ UNCHANGED <<cowKind, write_locks, access_locks, w_pc, w_frame, readerVars>>
  /\ UNCHANGED <<aborted, nonCowVars>>

CowInit ==
  /\ cowKind \in {"COWMap", "SharedExtendible"}
  /\ stored = [k \in CowKeys |-> IF cowKind = "COWMap" THEN 0 ELSE InitialSnap(k)]
  /\ heap = IF cowKind = "COWMap" THEN EmptyMap
            ELSE [s \in {InitialSnap(k) : k \in CowKeys} |-> 0]
  /\ next_snap = 1
  /\ write_locks = [s \in 0..(NumWriteLocks - 1) |-> Free]
  /\ access_locks = [s \in 0..(NumPartitions - 1) |-> Free]
  /\ w_pc = [t \in Threads |-> "idle"]
  /\ w_frame = [t \in Threads |-> NoWriter]
  /\ r_snap = [t \in Threads |-> 0]
  /\ r_seen = [t \in Threads |-> 0]
  /\ r_during = [t \in Threads |-> FALSE]
  /\ try_seq = 0
  /\ try_out = NoTry

(***************************************************************************)
(* The host / address directory (NextHopHost.h) and its reconciliation     *)
(* against a DNS answer (NextHopDNS.h).  HostRecord derives from           *)
(* Extendible<HostRecord>, whose header is not part of the sources: the    *)
(* commit of a writer obtained from a HostRecord is taken from the         *)
(* specification (the edited copy replaces the published field when the    *)
(* writer goes out of scope).  update_host_addr holds no lock from one     *)
(* table operation to the next, so a thread runs it in steps: the lookup   *)
(* of the host, then per address the lookup (and destroy) and the create,  *)
(* then the commit of the list.                                            *)
(***************************************************************************)
Hosts == {"h1", "h2"}
UnknownHost == "h3"
Addrs == {1, 2}
\* no entry in AddrRecord::map
Absent == "absent"
\* the host_name field of an AddrRecord nobody has initialised
NoHost == ""
AddrLists == UNION {[1..n -> Addrs] : n \in 0..MaxListLen}
NoCall == [host |-> NoHost, list |-> <<>>, i |-> 0, prev |-> {}, owned |-> {},
           alone |-> TRUE]
nonDnsVars == <<schemaRest, mapVars, cowVars, hostVars, extraVars>>

ListSet(list) == {list[i] : i \in 1..Len(list)}

\* std::sort(addr_list.begin(), addr_list.end())
sort(list) == SortSeq(list, LAMBDA x, y : x < y)

\* the address the loop of update_host_addr stands at
CurAddr(t) == dns_frame[t].list[dns_frame[t].i]

\* history: the frames after a step of thread t (0 for a caller outside the
\* threads) that wrote to the directory; every other call in progress has
\* from then on not run alone
Disturbed(t, frames) ==
  [u \in Threads |-> IF u # t /\ dns_pc[u] # "idle"
                     THEN [frames[u] EXCEPT !.alone = FALSE]
                     ELSE frames[u]]

\* update_host_addr, lines 18-29: sort the answer, look the host up and
\* return false for a host the table does not know.  The loop over the
\* existing list has no body that removes anything.  The frame keeps, as
\* history, the addresses of the host's list at the call and the addresses
\* of the answer that another host then owned.
update_host_addr(t, host_name, list) ==
  /\ aborted = ""
  /\ dns_pc[t] = "idle"
  /\ dns_calls < MaxDnsCalls
  /\ dns_calls' = dns_calls + 1
  /\ IF host_name \notin Hosts
     THEN /\ dns_ret' = [ret |-> "false", of |-> NoCall]
          /\ UNCHANGED <<dns_pc, dns_frame>>
     ELSE /\ dns_pc' = [dns_pc EXCEPT ![t] = "loop"]
          /\ dns_frame' = [dns_frame EXCEPT ![t] =
               [host  |-> host_name,
                list  |-> sort(list),
                i     |-> 1,
                prev  |-> ListSet(addr_list[host_name]),
                owned |-> {a \in ListSet(list) :
                             \E h1 \in Hosts \ {host_name} :
                               /\ a \in ListSet(addr_list[h1])
                               /\ addr_map[a] = h1},
                alone |-> TRUE]]
          /\ UNCHANGED dns_ret
  /\ UNCHANGED <<addr_list, addr_map>>
  /\ UNCHANGED <<aborted, nonDnsVars>>

\* lines 31-40: AddrRecord::find(addr); a record that names this host is
\* kept, a record that names anything else is destroyed
update_loop_find(t) ==
  /\ aborted = ""
  /\ dns_pc[t] = "loop"
  /\ dns_frame[t].i <= Len(dns_frame[t].list)
  /\ IF addr_map[CurAddr(t)] = dns_frame[t].host
     THEN /\ dns_frame' = [dns_frame EXCEPT ![t].i = @ + 1]
          /\ UNCHANGED <<addr_map, dns_pc>>
     ELSE /\ addr_map' = [addr_map EXCEPT ![CurAddr(t)] = Absent]
          /\ dns_pc' = [dns_pc EXCEPT ![t] = "create"]
          /\ dns_frame' = IF addr_map[CurAddr(t)] = Absent THEN dns_frame
                          ELSE Disturbed(t, dns_frame)
  /\ UNCHANGED <<addr_list, dns_ret, dns_calls>>
  /\ UNCHANGED <<aborted, nonDnsVars>>

\* the record AddrRecord::create(addr, addr_rec) makes has its host_name
\* initialised by the caller (line 44)
update_loop_create_NoInit(t) ==
  /\ aborted = ""
  /\ dns_pc[t] = "create"
  /\ addr_map' = IF addr_map[CurAddr(t)] = Absent
                 THEN [addr_map EXCEPT ![CurAddr(t)] = NoHost]
                 ELSE addr_map
  /\ dns_frame' = IF addr_map[CurAddr(t)] = Absent
                  THEN Disturbed(t, [dns_frame EXCEPT ![t].i = @ + 1])
                  ELSE [dns_frame EXCEPT ![t].i = @ + 1]
  /\ dns_pc' = [dns_pc EXCEPT ![t] = "loop"]
  /\ UNCHANGED <<addr_list, dns_ret, dns_calls>>
  /\ UNCHANGED <<aborted, nonDnsVars>>

\* lines 43-45: AddrRecord::create(addr, addr_rec) is true when it made the
\* record, and only then is host_name initialised
update_loop_create(t) ==
  /\ aborted = ""
  /\ dns_pc[t] = "create"
  /\ addr_map' = IF addr_map[CurAddr(t)] = Absent
                 THEN [addr_map EXCEPT ![CurAddr(t)] = dns_frame[t].host]
                 ELSE addr_map
  /\ dns_frame' = IF addr_map[CurAddr(t)] = Absent
                  THEN Disturbed(t, [dns_frame EXCEPT ![t].i = @ + 1])
                  ELSE [dns_frame EXCEPT ![t].i = @ + 1]
  /\ dns_pc' = [dns_pc EXCEPT ![t] = "loop"]
  /\ UNCHANGED <<addr_list, dns_ret, dns_calls>>
  /\ UNCHANGED <<aborted, nonDnsVars>>

\* line 49: the sorted answer replaces the host's addr_list.  What follows
\* (lines 51-70) names an `addr` that no longer exists at that point and
\* returns no value: the call's result is indeterminate.
update_commit(t) ==
  /\ aborted = ""
  /\ dns_pc[t] = "loop"
  /\ dns_frame[t].i > Len(dns_frame[t].list)
  /\ addr_list' = [addr_list EXCEPT ![dns_frame[t].host] = dns_frame[t].list]
  /\ dns_pc' = [dns_pc EXCEPT ![t] = "idle"]
  /\ dns_frame' = Disturbed(t, [dns_frame EXCEPT ![t] = NoCall])
  /\ dns_ret' = [ret |-> "indeterminate", of |-> dns_frame[t]]
  /\ UNCHANGED <<addr_map, dns_calls>>
  /\ UNCHANGED <<aborted, nonDnsVars>>

\* pair_host_addr(host_name, host_rec, addr, addr_rec): push the address
\* onto a copy of the host's list, commit it, initialise host_name
pair_host_addr(host_name, a) ==
  /\ aborted = ""
  /\ addr_map[a] # Absent
  /\ Len(addr_list[host_name]) < MaxListLen
  /\ dns_calls < MaxDnsCalls
  /\ dns_calls' = dns_calls + 1
  /\ addr_list' = [addr_list EXCEPT ![host_name] = Append(@, a)]
  /\ addr_map' = [addr_map EXCEPT ![a] = host_name]
  /\ dns_frame' = Disturbed(0, dns_frame)
  /\ UNCHANGED <<dns_pc, dns_ret>>
  /\ UNCHANGED <<aborted, nonDnsVars>>

DnsInit ==
  /\ addr_list = [h \in Hosts |-> <<>>]
  /\ addr_map = [a \in Addrs |-> Absent]
  /\ dns_pc = [t \in Threads |-> "idle"]
  /\ dns_frame = [t \in Threads |-> NoCall]
  /\ dns_ret = [ret |-> "none", of |-> NoCall]
  /\ dns_calls = 0

(***************************************************************************)
(* HostName (part_005): a record kept in HostLookupByNameHash while some   *)
(* system needs it.  alloc and free count those systems in                 *)
(* m_strong_ref_count, a std::atomic<uint8_t>; callers reach the record    *)
(* through HostNamePtr, a shared_ptr, of which the table holds one.  The   *)
(* caller of free holds the record's lock, as free requires.               *)
(***************************************************************************)
Records == 1..MaxRecords
NoRecord == 0
\* std::atomic<uint8_t> m_strong_ref_count
RefCountMod == 256
Unborn == [state |-> "unborn", count |-> 0, destroyed |-> FALSE, handles |-> 0,
           refs |-> 0]
nonHostVars == <<schemaRest, mapVars, cowVars, dnsVars, extraVars>>

\* HostName::alloc(hostname): an existing record is counted once more and
\* returned; else a record is made with count 1, its property block is
\* initialised, and it is put in the table
HostName_alloc ==
  /\ aborted = ""
  /\ IF hn_table # NoRecord
     THEN /\ hn_obj[hn_table].refs < MaxRefs
          /\ hn_obj[hn_table].handles < MaxHolders
          /\ hn_obj' = [hn_obj EXCEPT ![hn_table] =
               [@ EXCEPT !.count = (@ + 1) % RefCountMod,
                         !.handles = @ + 1,
                         !.refs = @ + 1]]
          /\ UNCHANGED hn_table
     ELSE /\ \E o \in Records :
               /\ hn_obj[o].state = "unborn"
               /\ \A p \in Records : p < o => hn_obj[p].state # "unborn"
               /\ hn_obj' = [hn_obj EXCEPT ![o] =
                    [state |-> "live", count |-> 1, destroyed |-> FALSE,
                     handles |-> 1, refs |-> 1]]
               /\ hn_table' = o
  /\ UNCHANGED <<aborted, nonHostVars>>

\* getHost(id): a HostNamePtr to the record in the table, if any; the
\* count of systems is not touched
getHost ==
  /\ aborted = ""
  /\ hn_table # NoRecord
  /\ hn_obj[hn_table].handles < MaxHolders
  /\ hn_obj' = [hn_obj EXCEPT ![hn_table].handles = @ + 1]
  /\ UNCHANGED hn_table
  /\ UNCHANGED <<aborted, nonHostVars>>

\* HostName::free() called through a HostNamePtr to record o
HostName_free(o) ==
  /\ aborted = ""
  /\ hn_obj[o].state = "live"
  /\ hn_obj[o].handles > 0
  /\ IF hn_obj[o].count = 0
     THEN \* ink_assert(m_strong_ref_count > 0)
          /\ aborted' = "free"
          /\ UNCHANGED <<hn_table, hn_obj>>
     ELSE /\ UNCHANGED aborted
          /\ IF hn_obj[o].count - 1 > 0
             THEN /\ hn_obj' = [hn_obj EXCEPT ![o] =
                       [@ EXCEPT !.count = @ - 1, !.refs = @ - 1]]
                  /\ UNCHANGED hn_table
             ELSE \* HostLookupByNameHash.erase(id); propBlockDestroy()
                  /\ hn_table' = NoRecord
                  /\ hn_obj' = [hn_obj EXCEPT ![o] =
                       [@ EXCEPT !.count = 0, !.refs = @ - 1,
                                 !.destroyed = TRUE]]
  /\ UNCHANGED nonHostVars

\* a caller lets go of a HostNamePtr to record o; the last one to go, once
\* the table holds none either, runs ~HostName and ~PropertyBlock
HostNamePtr_release(o) ==
  /\ hn_obj[o].state = "live"
  /\ aborted = ""
  /\ hn_obj[o].handles > 0
  /\ IF hn_obj[o].handles = 1 /\ hn_table # o
     THEN IF hn_obj[o].count # 0
          THEN \* ink_assert(m_strong_ref_count == 0)
               /\ aborted' = "~HostName"
               /\ UNCHANGED hn_obj
          ELSE /\ hn_obj' = [hn_obj EXCEPT ![o] =
                    [@ EXCEPT !.state = "deleted", !.handles = 0,
                              !.destroyed = TRUE]]
               /\ UNCHANGED aborted
     ELSE /\ hn_obj' = [hn_obj EXCEPT ![o].handles = @ - 1]
          /\ UNCHANGED aborted
  /\ UNCHANGED hn_table
  /\ UNCHANGED nonHostVars

HostInit ==
  /\ hn_table = NoRecord
  /\ hn_obj = [o \in Records |-> Unborn]

(***************************************************************************)
(* LockPool<RWLock> and RWLock.  The RWLock is a recursive exclusive lock  *)
(* with a counter of active readers: lock() takes the exclusive lock and   *)
(* then waits, up to an iteration ceiling, for the counter to reach zero;  *)
(* lock_shared() takes the exclusive lock only to count the reader in.     *)
(***************************************************************************)
KeyHashes == 0..MaxLocks
NoLockCall == [pc |-> "idle", idx |-> 0, iter |-> 0]
NewRWLock == [owner |-> Free, depth |-> 0, readers |-> 0]
nonLockVars == <<coreVars, hdrVars, shVars, sweepVars, hrVars, pairVars, arVars, bwVars, nwVars, flVars, liVars>>

\* LockPool(num_locks) : mutexes(num_locks)
LockPool_ctor(num_locks) ==
  /\ aborted = ""
  /\ ~pool_built
  /\ pool_built' = TRUE
  /\ mutexes' = [i \in 0..(num_locks - 1) |-> NewRWLock]
  /\ UNCHANGED <<lk_frame, rd_held, pool_ret, aborted, nonLockVars>>

\* LockPool::size()
pool_size == Cardinality(DOMAIN mutexes)

\* LockPool::getIndex(key_hash) and getMutex(key_hash): key_hash % size().
\* With no mutex in the pool the division is by zero: the process traps,
\* or the division yields a value and the index names no mutex
LockPool_getIndex(key_hash) ==
  /\ aborted = ""
  /\ pool_built
  /\ IF pool_size = 0
     THEN \E outcome \in {"trap", "value"} :
            /\ aborted' = IF outcome = "trap" THEN "SIGFPE" ELSE aborted
            /\ pool_ret' = [ret |-> 0, modulus |-> 0]
     ELSE /\ pool_ret' = [ret |-> (key_hash % pool_size) % 256, modulus |-> pool_size]
          /\ UNCHANGED aborted
  /\ UNCHANGED <<pool_built, mutexes, lk_frame, rd_held, nonLockVars>>

\* the exclusive lock of mutexes[idx] can be taken by t: it is recursive
CanTake(t, idx) == mutexes[idx].owner \in {Free, t}

\* a lock_shared() that does not count the reader in
RWLock_lock_shared_NoCount(t, idx) ==
  /\ aborted = ""
  /\ idx \in DOMAIN mutexes
  /\ lk_frame[t].pc = "idle"
  /\ rd_held[t][idx] < MaxHolds
  /\ CanTake(t, idx)
  /\ rd_held' = [rd_held EXCEPT ![t][idx] = @ + 1]
  /\ UNCHANGED <<pool_built, mutexes, lk_frame, pool_ret, aborted, nonLockVars>>

\* RWLock::lock_shared(): take the exclusive lock, count the reader in,
\* release the exclusive lock
RWLock_lock_shared(t, idx) ==
  /\ aborted = ""
  /\ idx \in DOMAIN mutexes
  /\ lk_frame[t].pc = "idle"
  /\ rd_held[t][idx] < MaxHolds
  /\ CanTake(t, idx)
  /\ mutexes' = [mutexes EXCEPT ![idx].readers = @ + 1]
  /\ rd_held' = [rd_held EXCEPT ![t][idx] = @ + 1]
  /\ UNCHANGED <<pool_built, lk_frame, pool_ret, aborted, nonLockVars>>

\* RWLock::unlock_shared(): count the reader out
RWLock_unlock_shared(t, idx) ==
  /\ aborted = ""
  /\ idx \in DOMAIN mutexes
  /\ lk_frame[t].pc = "idle"
  /\ rd_held[t][idx] > 0
  /\ mutexes' = [mutexes EXCEPT ![idx].readers = @ - 1]
  /\ rd_held' = [rd_held EXCEPT ![t][idx] = @ - 1]
  /\ UNCHANGED <<pool_built, lk_frame, pool_ret, aborted, nonLockVars>>

\* RWLock::lock(), first half: take the exclusive lock
RWLock_lock(t, idx) ==
  /\ aborted = ""
  /\ idx \in DOMAIN mutexes
  /\ lk_frame[t].pc = "idle"
  /\ mutexes[idx].depth < MaxHolds
  /\ CanTake(t, idx)
  /\ mutexes' = [mutexes EXCEPT ![idx].owner = t, ![idx].depth = @ + 1]
  /\ lk_frame' = [lk_frame EXCEPT ![t] = [pc |-> "spin", idx |-> idx, iter |-> 0]]
  /\ UNCHANGED <<pool_built, rd_held, pool_ret, aborted, nonLockVars>>

\* RWLock::lock(), the busy-wait: return when no reader is active, else
\* yield and look again; the assertion trips at the iteration ceiling
RWLock_lock_wait(t) ==
  /\ aborted = ""
  /\ lk_frame[t].pc = "spin"
  /\ IF mutexes[lk_frame[t].idx].readers = 0
     THEN /\ lk_frame' = [lk_frame EXCEPT ![t] = NoLockCall]
          /\ UNCHANGED aborted
     ELSE IF lk_frame[t].iter >= MaxSpin
          THEN /\ aborted' = "RWLock::lock"
               /\ UNCHANGED lk_frame
          ELSE /\ lk_frame' = [lk_frame EXCEPT ![t].iter = @ + 1]
               /\ UNCHANGED aborted
  /\ UNCHANGED <<pool_built, mutexes, rd_held, pool_ret, nonLockVars>>

\* RWLock::unlock(): give the exclusive lock back once
RWLock_unlock(t, idx) ==
  /\ aborted = ""
  /\ idx \in DOMAIN mutexes
  /\ lk_frame[t].pc = "idle"
  /\ mutexes[idx].owner = t
  /\ mutexes' = [mutexes EXCEPT ![idx] =
                   IF @.depth = 1 THEN [@ EXCEPT !.owner = Free, !.depth = 0]
                   ELSE [@ EXCEPT !.depth = @ - 1]]
  /\ UNCHANGED <<pool_built, lk_frame, rd_held, pool_ret, aborted, nonLockVars>>

LockInit ==
  /\ pool_built = FALSE
  /\ mutexes = [i \in {} |-> NewRWLock]
  /\ lk_frame = [t \in Threads |-> NoLockCall]
  /\ rd_held = [t \in Threads |-> [i \in 0..(MaxLocks - 1) |-> 0]]
  /\ pool_ret = [ret |-> 0, modulus |-> 1]

(***************************************************************************)
(* xdebug: print_request_headers.  The stringstream is a sequence of the   *)
(* strings written to it; the text of a header is a sequence of IO buffer  *)
(* blocks, an empty string standing for a block with nothing to read.      *)
(***************************************************************************)
Sides == {"Client", "Server"}
BlockTexts == {"", "Host: a", "Via: b"}
HdrBlocks == UNION {[1..n -> BlockTexts] : n \in 1..MaxBlocks}
Tags == {"<RequestHeaders>\n", "</RequestHeaders>\n", "<Client>\n", "</Client>\n",
         "<Server>\n", "</Server>\n"}
NoTxn == [ok |-> [x \in Sides |-> FALSE], hdr |-> [x \in Sides |-> <<"">>], before |-> 0]
nonHdrVars == <<coreVars, lockVars, shVars, sweepVars, hrVars, pairVars, arVars, bwVars, nwVars, flVars, liVars>>

\* print_headers: the loop over the blocks of the buffer, from block i on:
\* a block that has bytes is written with std::endl after it; the loop
\* goes on while there is a block and the last one had bytes
RECURSIVE print_headers_from(_, _)
print_headers_from(blocks, i) ==
  LET text == IF blocks[i] # "" THEN <<blocks[i], "\n">> ELSE <<>>
  IN IF i < Len(blocks) /\ blocks[i] # ""
     THEN text \o print_headers_from(blocks, i + 1)
     ELSE text

print_headers(blocks) == print_headers_from(blocks, 1)

\* the plugin is called for a transaction, with a stream that may hold
\* text already
TxnBegin(ok, hdr, prior) ==
  /\ aborted = ""
  /\ hdr_pc = "idle"
  /\ txn' = [ok |-> ok, hdr |-> hdr, before |-> Len(prior)]
  /\ output' = prior
  /\ hdr_pc' = "start"
  /\ UNCHANGED <<mloc, aborted, nonHdrVars>>

\* output << "<RequestHeaders>\n"
print_request_headers_open ==
  /\ aborted = ""
  /\ hdr_pc = "start"
  /\ output' = Append(output, "<RequestHeaders>\n")
  /\ hdr_pc' = "Client"
  /\ UNCHANGED <<txn, mloc, aborted, nonHdrVars>>

\* a section written whether or not the request was retrieved
print_request_headers_side_Always(side, next) ==
  /\ aborted = ""
  /\ hdr_pc = side
  /\ output' = output \o <<"<" \o side \o ">\n">> \o print_headers(txn.hdr[side])
                      \o <<"</" \o side \o ">\n">>
  /\ mloc' = IF txn.ok[side]
             THEN [mloc EXCEPT !.got[side] = @ + 1, !.released[side] = @ + 1]
             ELSE mloc
  /\ hdr_pc' = next
  /\ UNCHANGED <<txn, aborted, nonHdrVars>>

\* if (TSHttpTxnClientReqGet(...) == TS_SUCCESS) { ... } and the same for
\* the server request: the tags, the header between them, the release
print_request_headers_side(side, next) ==
  /\ aborted = ""
  /\ hdr_pc = side
  /\ IF txn.ok[side]
     THEN /\ output' = output \o <<"<" \o side \o ">\n">> \o print_headers(txn.hdr[side])
                              \o <<"</" \o side \o ">\n">>
          /\ mloc' = [mloc EXCEPT !.got[side] = @ + 1, !.released[side] = @ + 1]
     ELSE UNCHANGED <<output, mloc>>
  /\ hdr_pc' = next
  /\ UNCHANGED <<txn, aborted, nonHdrVars>>

\* output << "</RequestHeaders>\n"
print_request_headers_close ==
  /\ aborted = ""
  /\ hdr_pc = "end"
  /\ output' = Append(output, "</RequestHeaders>\n")
  /\ hdr_pc' = "done"
  /\ UNCHANGED <<txn, mloc, aborted, nonHdrVars>>

HdrInit ==
  /\ hdr_pc = "idle"
  /\ txn = NoTxn
  /\ output = <<>>
  /\ mloc = [got |-> [x \in Sides |-> 0], released |-> [x \in Sides |-> 0]]

(***************************************************************************)
(* tools/docker_setup.sh.  An image is the word platform:name:version of   *)
(* the list Images, kept as its three parts; the empty selection is <<>>.  *)
(* The script runs under `set -e`.                                         *)
(***************************************************************************)
EdgeImages ==
  << <<"edge", "ylinux7.1", "latest">>, <<"edge", "ylinux7.5", "latest">>,
     <<"edge", "user-ylinux7.5", "latest">> >>
ApacheImages ==
  << <<"ats", "centos", "6">>, <<"ats", "centos", "7">>, <<"ats", "debian", "8">>,
     <<"ats", "debian", "9">>, <<"ats", "fedora", "27">>, <<"ats", "fedora", "28">>,
     <<"ats", "ubuntu", "16.04">>, <<"ats", "ubuntu", "17.10">> >>
\* what the user can answer the menu with: a number (of an entry, or one
\* past the last entry), a line that is no number, a blank line, or the
\* end of the input
MenuInputs ==
  {[kind |-> "number", n |-> i] : i \in 1..(Len(EdgeImages) + Len(ApacheImages) + 1)}
    \cup {[kind |-> k, n |-> 0] : k \in {"other", "blank", "eof"}}
Launching == {"build", "run", "exec", "start"}
nonShVars == <<coreVars, lockVars, hdrVars, sweepVars, hrVars, pairVars, arVars, bwVars, nwVars, flVars, liVars>>

\* main: populateEdgeImages; populateApacheImages
populateImages ==
  /\ aborted = ""
  /\ sh_pc = "main"
  /\ Images' = Images \o EdgeImages \o ApacheImages
  /\ sh_pc' = "chooseImage"
  /\ UNCHANGED <<ImageSelection, prompts, docker_log, exit_status, aborted, nonShVars>>

\* what `select` leaves in ImageSelection for a line read
select(input) ==
  IF input.kind = "number" /\ input.n \in 1..Len(Images) THEN Images[input.n] ELSE <<>>

\* a chooseImage that goes on with whatever was selected
chooseImage_NoExit(input) ==
  /\ aborted = ""
  /\ sh_pc = "chooseImage"
  /\ IF input.kind = "blank"
     THEN /\ prompts < MaxPrompts
          /\ prompts' = prompts + 1
          /\ UNCHANGED <<sh_pc, ImageSelection>>
     ELSE /\ ImageSelection' = select(input)
          /\ sh_pc' = "findExistingContainer"
          /\ UNCHANGED prompts
  /\ UNCHANGED <<Images, docker_log, exit_status, aborted, nonShVars>>

\* chooseImage: select ImageSelection in $Images; do break; done -- a blank
\* line shows the menu again, any other line or the end of the input ends
\* the select; test -z "$ImageSelection" && exit 0
chooseImage(input) ==
  /\ aborted = ""
  /\ sh_pc = "chooseImage"
  /\ IF input.kind = "blank"
     THEN /\ prompts < MaxPrompts
          /\ prompts' = prompts + 1
          /\ UNCHANGED <<sh_pc, ImageSelection, exit_status>>
     ELSE /\ ImageSelection' = select(input)
          /\ IF select(input) = <<>>
             THEN sh_pc' = "exited" /\ exit_status' = 0
             ELSE sh_pc' = "findExistingContainer" /\ UNCHANGED exit_status
          /\ UNCHANGED prompts
  /\ UNCHANGED <<Images, docker_log, aborted, nonShVars>>

\* main: ExistingContainer="$(findExistingContainer)" and the test on it
findExistingContainer(found) ==
  /\ aborted = ""
  /\ sh_pc = "findExistingContainer"
  /\ docker_log' = docker_log \cup {"ps"}
  /\ sh_pc' = IF found THEN "existing" ELSE "createImageAndRunContainer"
  /\ UNCHANGED <<Images, ImageSelection, prompts, exit_status, aborted, nonShVars>>

\* main: docker inspect, then docker exec in a running container or docker
\* start of a stopped one; a command that fails ends the script
useExistingContainer(running, ok) ==
  /\ aborted = ""
  /\ sh_pc = "existing"
  /\ docker_log' = docker_log \cup {"inspect", IF running THEN "exec" ELSE "start"}
  /\ sh_pc' = "exited"
  /\ exit_status' = IF ok THEN 0 ELSE 1
  /\ UNCHANGED <<Images, ImageSelection, prompts, aborted, nonShVars>>

\* createDockerfile knows how to install on the image selected
knownImage ==
  \/ ImageSelection[1] = "edge"
  \/ /\ ImageSelection[1] = "ats"
     /\ ImageSelection[2] \in {"fedora", "centos", "debian", "ubuntu"}

\* createImageAndRunContainer: findExistingImage, buildDockerImage when
\* there is none, docker run
createImageAndRunContainer(have_image, build_ok, run_ok) ==
  /\ aborted = ""
  /\ sh_pc = "createImageAndRunContainer"
  /\ sh_pc' = "exited"
  /\ IF have_image
     THEN /\ docker_log' = docker_log \cup {"image ls", "run"}
          /\ exit_status' = IF run_ok THEN 0 ELSE 1
     ELSE IF ~knownImage
          THEN /\ docker_log' = docker_log \cup {"image ls"}
               /\ exit_status' = 1
          ELSE IF ~build_ok
               THEN /\ docker_log' = docker_log \cup {"image ls", "build"}
                    /\ exit_status' = 1
               ELSE /\ docker_log' = docker_log \cup {"image ls", "build", "run"}
                    /\ exit_status' = IF run_ok THEN 0 ELSE 1
  /\ UNCHANGED <<Images, ImageSelection, prompts, aborted, nonShVars>>

ShInit ==
  /\ sh_pc = "main"
  /\ Images = <<>>
  /\ ImageSelection = <<>>
  /\ prompts = 0
  /\ docker_log = {}
  /\ exit_status = -1

(***************************************************************************)
(* PartitionedMap::clear and visit, and COWMap::clear over its             *)
(* PartitionedMap.  Each iteration of the loop over the partitions is two  *)
(* steps: taking the partition's lock, and the body with the unlock at the *)
(* end of the scope and the third expression of the for statement.         *)
(***************************************************************************)
NoSweep == [part_idx |-> 0, left |-> {}, lock_idx |-> 0, cow |-> FALSE,
            visits |-> [k \in Keys |-> 0], cleared |-> {}, walked |-> {},
            done |-> FALSE]
\* the part of cowVars the sweeps leave alone, and everything outside the
\* maps
cowRest == <<cowKind, stored, heap, next_snap, access_locks,
             w_pc, w_frame, r_snap, r_seen, r_during, try_seq, try_out>>
nonSweepVars == <<schemaRest, dnsVars, hostVars, lockVars, hdrVars, shVars, hrVars, pairVars, arVars, bwVars, nwVars, flVars, liVars>>

\* for (...; ...; part_idx): the third expression of the loop
loop_step(part_idx) == part_idx

\* PartitionedMap::clear() is called
clear(t) ==
  /\ aborted = ""
  /\ map_pc[t] = "idle"
  /\ map_pc' = [map_pc EXCEPT ![t] = "clear"]
  /\ map_frame' = [map_frame EXCEPT ![t] = [op |-> "clear", key |-> 0]]
  /\ sweep' = [sweep EXCEPT ![t] = NoSweep]
  /\ UNCHANGED <<part_maps, part_access, next_handle, foa_log, replaced>>
  /\ UNCHANGED <<aborted, write_locks, cowRest, nonSweepVars>>

\* COWMap::clear() is called
COWMap_clear(t) ==
  /\ aborted = ""
  /\ map_pc[t] = "idle"
  /\ map_pc' = [map_pc EXCEPT ![t] = "lockAll"]
  /\ map_frame' = [map_frame EXCEPT ![t] = [op |-> "clear", key |-> 0]]
  /\ sweep' = [sweep EXCEPT ![t] = [NoSweep EXCEPT !.cow = TRUE]]
  /\ UNCHANGED <<part_maps, part_access, next_handle, foa_log, replaced>>
  /\ UNCHANGED <<aborted, write_locks, cowRest, nonSweepVars>>

\* write_locks.lockAll(): the next mutex of the pool; after the last one
\* map.clear() is entered
lockAll(t) ==
  /\ aborted = ""
  /\ map_pc[t] = "lockAll"
  /\ write_locks[sweep[t].lock_idx] = Free
  /\ write_locks' = [write_locks EXCEPT ![sweep[t].lock_idx] = t]
  /\ sweep' = [sweep EXCEPT ![t].lock_idx = @ + 1]
  /\ map_pc' = [map_pc EXCEPT ![t] =
                  IF sweep[t].lock_idx + 1 = NumWriteLocks THEN "clear" ELSE "lockAll"]
  /\ UNCHANGED <<part_maps, part_access, map_frame, next_handle, foa_log, replaced>>
  /\ UNCHANGED <<aborted, cowRest, nonSweepVars>>

\* the write locks after write_locks.unlockAll() by t
unlockAll(t) == [l \in DOMAIN write_locks |->
                   IF write_locks[l] = t THEN Free ELSE write_locks[l]]

\* clear(): the test of the loop and the lock of the partition; when the
\* test fails clear() returns, and COWMap::clear() goes on to unlockAll()
clear_lock(t) ==
  /\ aborted = ""
  /\ map_pc[t] = "clear"
  /\ IF sweep[t].part_idx < NumPartitions
     THEN /\ part_access[getMutex(NumPartitions, sweep[t].part_idx)] = Free
          /\ part_access' = [part_access EXCEPT
                               ![getMutex(NumPartitions, sweep[t].part_idx)] = t]
          /\ map_pc' = [map_pc EXCEPT ![t] = "clear_body"]
          /\ UNCHANGED <<map_frame, write_locks>>
     ELSE /\ map_pc' = [map_pc EXCEPT ![t] = "idle"]
          /\ map_frame' = [map_frame EXCEPT ![t] = NoFrame]
          /\ write_locks' = IF sweep[t].cow THEN unlockAll(t) ELSE write_locks
          /\ UNCHANGED part_access
  /\ UNCHANGED <<part_maps, next_handle, foa_log, replaced, sweep>>
  /\ UNCHANGED <<aborted, cowRest, nonSweepVars>>

\* clear(): part_maps[part_idx].clear(), the end of the scope of the lock,
\* and the third expression of the loop
clear_part(t) ==
  /\ aborted = ""
  /\ map_pc[t] = "clear_body"
  /\ part_maps' = [part_maps EXCEPT ![sweep[t].part_idx] = EmptyMap]
  /\ part_access' = Unlock(t)
  /\ sweep' = [sweep EXCEPT ![t].cleared = @ \cup {sweep[t].part_idx},
                            ![t].part_idx = loop_step(@)]
  /\ map_pc' = [map_pc EXCEPT ![t] = "clear"]
  /\ UNCHANGED <<map_frame, next_handle, foa_log, replaced>>
  /\ UNCHANGED <<aborted, write_locks, cowRest, nonSweepVars>>

\* PartitionedMap::visit(callback) is called
visit(t) ==
  /\ aborted = ""
  /\ map_pc[t] = "idle"
  /\ map_pc' = [map_pc EXCEPT ![t] = "visit"]
  /\ map_frame' = [map_frame EXCEPT ![t] = [op |-> "visit", key |-> 0]]
  /\ sweep' = [sweep EXCEPT ![t] = NoSweep]
  /\ UNCHANGED <<part_maps, part_access, next_handle, foa_log, replaced>>
  /\ UNCHANGED <<aborted, write_locks, cowRest, nonSweepVars>>

\* visit(): the test of the outer loop and the lock of the partition, whose
\* entries the inner loop then iterates; when the test fails visit() returns
visit_lock(t) ==
  /\ aborted = ""
  /\ map_pc[t] = "visit"
  /\ IF sweep[t].part_idx < NumPartitions
     THEN /\ part_access[getMutex(NumPartitions, sweep[t].part_idx)] = Free
          /\ part_access' = [part_access EXCEPT
                               ![getMutex(NumPartitions, sweep[t].part_idx)] = t]
          /\ sweep' = [sweep EXCEPT ![t].left = DOMAIN part_maps[sweep[t].part_idx]]
          /\ map_pc' = [map_pc EXCEPT ![t] = "visit_body"]
          /\ UNCHANGED map_frame
     ELSE /\ map_pc' = [map_pc EXCEPT ![t] = "idle"]
          /\ map_frame' = [map_frame EXCEPT ![t] = NoFrame]
          /\ UNCHANGED <<part_access, sweep>>
  /\ UNCHANGED <<part_maps, next_handle, foa_log, replaced>>
  /\ UNCHANGED <<aborted, write_locks, cowRest, nonSweepVars>>

\* visit(): the callback on the next entry k of the partition, which says
\* whether it is done; if (done) return
visit_entry(t, k, done) ==
  /\ aborted = ""
  /\ map_pc[t] = "visit_body"
  /\ k \in sweep[t].left
  /\ sweep' = [sweep EXCEPT ![t].left = @ \ {k},
                            ![t].visits[k] = IF @ < MaxVisits THEN @ + 1 ELSE @,
                            ![t].done = done]
  /\ IF done
     THEN /\ part_access' = Unlock(t)
          /\ map_pc' = [map_pc EXCEPT ![t] = "idle"]
          /\ map_frame' = [map_frame EXCEPT ![t] = NoFrame]
     ELSE UNCHANGED <<part_access, map_pc, map_frame>>
  /\ UNCHANGED <<part_maps, next_handle, foa_log, replaced>>
  /\ UNCHANGED <<aborted, write_locks, cowRest, nonSweepVars>>

\* visit(): the inner loop is over; the end of the scope of the lock and
\* the third expression of the outer loop
visit_part_end(t) ==
  /\ aborted = ""
  /\ map_pc[t] = "visit_body"
  /\ sweep[t].left = {}
  /\ part_access' = Unlock(t)
  /\ sweep' = [sweep EXCEPT ![t].walked = @ \cup {sweep[t].part_idx},
                            ![t].part_idx = loop_step(@)]
  /\ map_pc' = [map_pc EXCEPT ![t] = "visit"]
  /\ UNCHANGED <<part_maps, map_frame, next_handle, foa_log, replaced>>
  /\ UNCHANGED <<aborted, write_locks, cowRest, nonSweepVars>>

SweepInit == sweep = [t \in Threads |-> NoSweep]

(***************************************************************************)
(* HostRecord::create, in its two versions.  NextHopHost.h takes the lock  *)
(* of the partition for the whole call, so the call is one step; part_006  *)
(* calls find and then map.put, each of which locks on its own, so the     *)
(* call is two steps.                                                      *)
(***************************************************************************)
Dangling == -1
NoCreate == [host |-> NoHost, ret |-> NoRecord]
nonHrVars == <<coreVars, lockVars, hdrVars, shVars, sweepVars, pairVars, arVars, bwVars, nwVars, flVars, liVars>>

\* NextHopHost.h: `auto part_map = map.getPartMap(host_name, lck)` copies
\* the sub-map, so the lookup and the insertion are made in the copy; the
\* function returns a reference to its local shared_ptr, which the caller
\* reads after it is gone: the record made, or something else
create_locked(t, host_name) ==
  /\ aborted = ""
  /\ hr_version \in {"none", "NextHopHost.h"}
  /\ hr_pc[t] = "idle"
  /\ hr_made < MaxRecords
  /\ hr_version' = "NextHopHost.h"
  /\ LET part_map == hr_map
     IN IF part_map[host_name] # NoRecord
        THEN /\ \E ret \in {part_map[host_name], Dangling} :
                  /\ hr_rets' = [hr_rets EXCEPT ![host_name] = @ \cup {ret}]
                  /\ hr_frame' = [hr_frame EXCEPT ![t] = [host |-> host_name, ret |-> ret]]
             /\ UNCHANGED hr_made
        ELSE /\ hr_made' = hr_made + 1
             /\ \E ret \in {hr_made + 1, Dangling} :
                  /\ hr_rets' = [hr_rets EXCEPT ![host_name] = @ \cup {ret}]
                  /\ hr_frame' = [hr_frame EXCEPT ![t] = [host |-> host_name, ret |-> ret]]
  /\ UNCHANGED <<hr_map, hr_pc, aborted, nonHrVars>>

\* part_006: name_rec_ptr = find(host_name); if (name_rec_ptr) return it
create_find(t, host_name) ==
  /\ aborted = ""
  /\ hr_version \in {"none", "part_006"}
  /\ hr_pc[t] = "idle"
  /\ hr_version' = "part_006"
  /\ IF hr_map[host_name] # NoRecord
     THEN /\ hr_rets' = [hr_rets EXCEPT ![host_name] = @ \cup {hr_map[host_name]}]
          /\ hr_frame' = [hr_frame EXCEPT ![t] = [host |-> host_name, ret |-> hr_map[host_name]]]
          /\ UNCHANGED hr_pc
     ELSE /\ hr_pc' = [hr_pc EXCEPT ![t] = "put"]
          /\ hr_frame' = [hr_frame EXCEPT ![t] = [host |-> host_name, ret |-> NoRecord]]
          /\ UNCHANGED hr_rets
  /\ UNCHANGED <<hr_map, hr_made, aborted, nonHrVars>>

\* part_006: name_rec_ptr = new HostRecord(); map.put(host_name,
\* name_rec_ptr); return name_rec_ptr
create_put(t) ==
  /\ aborted = ""
  /\ hr_pc[t] = "put"
  /\ hr_made < MaxRecords
  /\ hr_made' = hr_made + 1
  /\ hr_map' = [hr_map EXCEPT ![hr_frame[t].host] = hr_made + 1]
  /\ hr_rets' = [hr_rets EXCEPT ![hr_frame[t].host] = @ \cup {hr_made + 1}]
  /\ hr_pc' = [hr_pc EXCEPT ![t] = "idle"]
  /\ hr_frame' = [hr_frame EXCEPT ![t].ret = hr_made + 1]
  /\ UNCHANGED <<hr_version, aborted, nonHrVars>>

HrInit ==
  /\ hr_map = [h \in Hosts |-> NoRecord]
  /\ hr_version = "none"
  /\ hr_pc = [t \in Threads |-> "idle"]
  /\ hr_frame = [t \in Threads |-> NoCreate]
  /\ hr_made = 0
  /\ hr_rets = [h \in Hosts |-> {}]

(***************************************************************************)
(* pair_host_addr (part_008): a writer for the addr_list field of a host   *)
(* record is taken, the address is pushed onto the writer's copy, and the  *)
(* writer is destroyed at the end of the function.  The writer comes from  *)
(* SharedExtendible::writeCopySwap with the writer_ptr of part_002, or     *)
(* from Record::writeCopy with the writer_ptr of PropertyBlock.h.  A list  *)
(* is a sequence of addresses; the local `data_ptr` of the call lies at a  *)
(* stack address, slot.                                                    *)
(***************************************************************************)
\* the address of the field, this + field.offset
Host_fld_addr_list == 1
NoPair == [addr |-> 0, data |-> <<>>, clone |-> <<>>, slot |-> 0]
nonPairVars == <<coreVars, lockVars, hdrVars, shVars, sweepVars, hrVars, arVars, bwVars, nwVars, flVars, liVars>>

\* the addresses held by a list
Listed(list) == {list[i] : i \in 1..Len(list)}

\* pair_host_addr enters writeCopySwap: `auto data_ptr` becomes a copy of
\* the field's pointer, local to the call, and a writer_ptr is constructed
\* from it
pair_writeCopySwap(t, a, slot) ==
  /\ aborted = ""
  /\ pa_version \in {"none", "part_002"}
  /\ pa_pc[t] = "idle"
  /\ a \notin pa_done[t]
  /\ Cardinality(pa_done[t]) < MaxPairCalls
  /\ pa_version' = "part_002"
  /\ pa_frame' = [pa_frame EXCEPT ![t] =
                    [addr |-> a, data |-> pa_field, clone |-> <<>>, slot |-> slot]]
  /\ pa_pc' = [pa_pc EXCEPT ![t] = "ctor"]
  /\ UNCHANGED <<pa_field, pa_addr_host, pa_write_locks, pa_access_locks, pa_done>>
  /\ UNCHANGED <<aborted, nonPairVars>>

\* writer_ptr::writer_ptr of part_002: swap_loc refers to data_ptr; the
\* write lock is the mutex of &data_ptr; then the data is copied
pair_writer_ptr(t) ==
  /\ aborted = ""
  /\ pa_pc[t] = "ctor"
  /\ pa_write_locks[getMutex(NumWriteLocks, pa_frame[t].slot)] = Free
  /\ pa_write_locks' = [pa_write_locks EXCEPT
                          ![getMutex(NumWriteLocks, pa_frame[t].slot)] = t]
  /\ pa_frame' = [pa_frame EXCEPT ![t].clone = pa_frame[t].data]
  /\ pa_pc' = [pa_pc EXCEPT ![t] = "edit"]
  /\ UNCHANGED <<pa_field, pa_addr_host, pa_version, pa_access_locks, pa_done>>
  /\ UNCHANGED <<aborted, nonPairVars>>

\* Record::writeCopy: `lock`, a local, takes the mutex of the field's
\* address; data_ptr becomes a copy of the field's pointer; the member
\* initialisers of writer_ptr copy the data before the constructor body runs
pair_writeCopy(t, a, slot) ==
  /\ aborted = ""
  /\ pa_version \in {"none", "PropertyBlock.h"}
  /\ pa_pc[t] = "idle"
  /\ a \notin pa_done[t]
  /\ Cardinality(pa_done[t]) < MaxPairCalls
  /\ pa_write_locks[getMutex(NumWriteLocks, Host_fld_addr_list)] = Free
  /\ pa_write_locks' = [pa_write_locks EXCEPT
                          ![getMutex(NumWriteLocks, Host_fld_addr_list)] = t]
  /\ pa_version' = "PropertyBlock.h"
  /\ pa_frame' = [pa_frame EXCEPT ![t] =
                    [addr |-> a, data |-> pa_field, clone |-> pa_field, slot |-> slot]]
  /\ pa_pc' = [pa_pc EXCEPT ![t] = "ctor_body"]
  /\ UNCHANGED <<pa_field, pa_addr_host, pa_access_locks, pa_done>>
  /\ UNCHANGED <<aborted, nonPairVars>>

\* writer_ptr::writer_ptr of PropertyBlock.h, its body: the write lock is
\* the mutex of &data_ptr, from the pool `lock` was taken from.  When it is
\* the mutex this thread already holds, the thread locks a mutex it owns:
\* it stays blocked, or the process ends.  Otherwise writeCopy returns and
\* `lock` is unlocked.
pair_writeCopy_writer_ptr(t, outcome) ==
  /\ aborted = ""
  /\ pa_pc[t] = "ctor_body"
  /\ IF getMutex(NumWriteLocks, pa_frame[t].slot) = getMutex(NumWriteLocks, Host_fld_addr_list)
     THEN /\ aborted' = IF outcome = "terminate" THEN "writer_ptr" ELSE aborted
          /\ pa_pc' = [pa_pc EXCEPT ![t] = "blocked"]
          /\ UNCHANGED pa_write_locks
     ELSE /\ outcome = "blocked"
          /\ pa_write_locks[getMutex(NumWriteLocks, pa_frame[t].slot)] = Free
          /\ pa_write_locks' = [pa_write_locks EXCEPT
                                  ![getMutex(NumWriteLocks, pa_frame[t].slot)] = t,
                                  ![getMutex(NumWriteLocks, Host_fld_addr_list)] = Free]
          /\ pa_pc' = [pa_pc EXCEPT ![t] = "edit"]
          /\ UNCHANGED aborted
  /\ UNCHANGED <<pa_field, pa_addr_host, pa_version, pa_frame, pa_access_locks, pa_done>>
  /\ UNCHANGED nonPairVars

\* addr_list_writer->push_back(addr); addr_rec->init(Addr_fld_host_name) =
\* host_name
pair_push_back(t, host_name) ==
  /\ aborted = ""
  /\ pa_pc[t] = "edit"
  /\ pa_frame' = [pa_frame EXCEPT ![t].clone = Append(@, pa_frame[t].addr)]
  /\ pa_addr_host' = [pa_addr_host EXCEPT ![pa_frame[t].addr] = host_name]
  /\ pa_pc' = [pa_pc EXCEPT ![t] = "scope_end"]
  /\ UNCHANGED <<pa_field, pa_version, pa_write_locks, pa_access_locks, pa_done>>
  /\ UNCHANGED <<aborted, nonPairVars>>

\* writer_ptr::~writer_ptr of part_002, first half: the access lock is the
\* mutex of &swap_loc, the address of data_ptr
pair_dtor_lock(t) ==
  /\ aborted = ""
  /\ pa_version = "part_002"
  /\ pa_pc[t] = "scope_end"
  /\ pa_access_locks[getMutex(NumPartitions, pa_frame[t].slot)] = Free
  /\ pa_access_locks' = [pa_access_locks EXCEPT
                           ![getMutex(NumPartitions, pa_frame[t].slot)] = t]
  /\ pa_pc' = [pa_pc EXCEPT ![t] = "commit"]
  /\ UNCHANGED <<pa_field, pa_addr_host, pa_version, pa_frame, pa_write_locks, pa_done>>
  /\ UNCHANGED <<aborted, nonPairVars>>

\* writer_ptr::~writer_ptr: swap_loc is assigned (in PropertyBlock.h with
\* no access lock).  swap_loc refers to the local data_ptr of writeCopySwap
\* or writeCopy, which is gone: the field's own pointer is not written, and
\* the write to the dead stack slot goes unnoticed or ends the process.  The
\* locks are unlocked and pair_host_addr returns.
pair_dtor_swap(t, crash) ==
  /\ aborted = ""
  /\ \/ pa_version = "part_002" /\ pa_pc[t] = "commit"
     \/ pa_version = "PropertyBlock.h" /\ pa_pc[t] = "scope_end"
  /\ aborted' = IF crash THEN "~writer_ptr" ELSE aborted
  /\ pa_access_locks' = Released(pa_access_locks, t)
  /\ pa_write_locks' = Released(pa_write_locks, t)
  /\ pa_done' = [pa_done EXCEPT ![t] = @ \cup {pa_frame[t].addr}]
  /\ pa_pc' = [pa_pc EXCEPT ![t] = "idle"]
  /\ pa_frame' = [pa_frame EXCEPT ![t] = NoPair]
  /\ UNCHANGED <<pa_field, pa_addr_host, pa_version>>
  /\ UNCHANGED nonPairVars

PairInit ==
  /\ pa_field = <<>>
  /\ pa_addr_host = [a \in Addrs |-> Absent]
  /\ pa_version = "none"
  /\ pa_pc = [t \in Threads |-> "idle"]
  /\ pa_frame = [t \in Threads |-> NoPair]
  /\ pa_write_locks = [s \in 0..(NumWriteLocks - 1) |-> Free]
  /\ pa_access_locks = [s \in 0..(NumPartitions - 1) |-> Free]
  /\ pa_done = [t \in Threads |-> {}]

(***************************************************************************)
(* The constant host_name field of an AddrRecord.  update_host_addr calls  *)
(* AddrRecord::create(addr, addr_rec) and then init on the record it       *)
(* made; pair_host_addr calls init on the record it is handed; the create  *)
(* of part_006 initialises the record before it puts it in the table.      *)
(* No lock is held from one table operation to the next.                   *)
(***************************************************************************)
NoAddrCall == [host |-> NoHost, addr |-> 0, rec |-> NoRecord]
nonArVars == <<coreVars, lockVars, hdrVars, shVars, sweepVars, hrVars, pairVars, bwVars, nwVars, flVars, liVars>>

\* whether record r is stored in AddrRecord::map
InTable(r) == \E a \in Addrs : ar_map[a] = r

\* init(fld_host_name) = host_name on record r
host_name_init(recs, r, host_name) ==
  [recs EXCEPT ![r] = [host |-> host_name, inits |-> @.inits + 1,
                       late |-> @.late \/ InTable(r)]]

\* NextHopDNS.h lines 32-36: AddrRecord::find(addr); a record that names
\* this host is kept
AddrRecord_find(t, host_name, a) ==
  /\ aborted = ""
  /\ ar_version \in {"none", "NextHopDNS.h"}
  /\ ar_pc[t] = "idle"
  /\ ar_version' = "NextHopDNS.h"
  /\ ar_frame' = [ar_frame EXCEPT ![t] = [host |-> host_name, addr |-> a, rec |-> ar_map[a]]]
  /\ ar_pc' = [ar_pc EXCEPT ![t] =
                 IF ar_map[a] = NoRecord THEN "create"
                 ELSE IF ar_recs[ar_map[a]].host = host_name THEN "idle"
                 ELSE "destroy"]
  /\ UNCHANGED <<ar_map, ar_recs>>
  /\ UNCHANGED <<aborted, nonArVars>>

\* line 38: AddrRecord::destroy(addr) pops whatever the table holds
AddrRecord_destroy(t) ==
  /\ aborted = ""
  /\ ar_pc[t] = "destroy"
  /\ ar_map' = [ar_map EXCEPT ![ar_frame[t].addr] = NoRecord]
  /\ ar_pc' = [ar_pc EXCEPT ![t] = "create"]
  /\ UNCHANGED <<ar_recs, ar_version, ar_frame>>
  /\ UNCHANGED <<aborted, nonArVars>>

\* line 43: AddrRecord::create(addr, addr_rec) adds a record to the table
\* when the address has none and is true then; otherwise addr_rec is the
\* record found
AddrRecord_create(t) ==
  /\ aborted = ""
  /\ ar_pc[t] = "create"
  /\ IF ar_map[ar_frame[t].addr] = NoRecord
     THEN /\ Len(ar_recs) < MaxAddrRecs
          /\ ar_recs' = Append(ar_recs, [host |-> NoHost, inits |-> 0, late |-> FALSE])
          /\ ar_map' = [ar_map EXCEPT ![ar_frame[t].addr] = Len(ar_recs) + 1]
          /\ ar_frame' = [ar_frame EXCEPT ![t].rec = Len(ar_recs) + 1]
          /\ ar_pc' = [ar_pc EXCEPT ![t] = "init"]
     ELSE /\ ar_frame' = [ar_frame EXCEPT ![t].rec = ar_map[ar_frame[t].addr]]
          /\ ar_pc' = [ar_pc EXCEPT ![t] = "idle"]
          /\ UNCHANGED <<ar_map, ar_recs>>
  /\ UNCHANGED ar_version
  /\ UNCHANGED <<aborted, nonArVars>>

\* line 44: addr_rec->init(Fld_host_name) = host_name
AddrRecord_init(t) ==
  /\ aborted = ""
  /\ ar_pc[t] = "init"
  /\ ar_recs' = host_name_init(ar_recs, ar_frame[t].rec, ar_frame[t].host)
  /\ ar_pc' = [ar_pc EXCEPT ![t] = "idle"]
  /\ UNCHANGED <<ar_map, ar_version, ar_frame>>
  /\ UNCHANGED <<aborted, nonArVars>>

\* part_006, AddrRecord::create(addr, name_ptr): ink_assert(!find(addr))
create_assert(t, host_name, a) ==
  /\ aborted = ""
  /\ ar_version \in {"none", "part_006"}
  /\ ar_pc[t] = "idle"
  /\ ar_version' = "part_006"
  /\ ar_frame' = [ar_frame EXCEPT ![t] = [host |-> host_name, addr |-> a, rec |-> NoRecord]]
  /\ IF ar_map[a] # NoRecord
     THEN /\ aborted' = "AddrRecord::create"
          /\ UNCHANGED ar_pc
     ELSE /\ ar_pc' = [ar_pc EXCEPT ![t] = "new"]
          /\ UNCHANGED aborted
  /\ UNCHANGED <<ar_map, ar_recs>>
  /\ UNCHANGED nonArVars

\* part_006: addr_rec = new AddrRecord(); addr_rec[fld_host_name].init(
\* name_ptr); AddrRecords.put(addr, addr_rec)
create_new(t) ==
  /\ aborted = ""
  /\ ar_pc[t] = "new"
  /\ Len(ar_recs) < MaxAddrRecs
  /\ ar_recs' = Append(ar_recs, [host |-> ar_frame[t].host, inits |-> 1, late |-> FALSE])
  /\ ar_map' = [ar_map EXCEPT ![ar_frame[t].addr] = Len(ar_recs) + 1]
  /\ ar_frame' = [ar_frame EXCEPT ![t].rec = Len(ar_recs) + 1]
  /\ ar_pc' = [ar_pc EXCEPT ![t] = "idle"]
  /\ UNCHANGED ar_version
  /\ UNCHANGED <<aborted, nonArVars>>

\* part_006, AddrRecord::destroy(addr): AddrRecords.pop(addr)
AddrRecords_pop(t, a) ==
  /\ aborted = ""
  /\ ar_version = "part_006"
  /\ ar_pc[t] = "idle"
  /\ ar_map[a] # NoRecord
  /\ ar_map' = [ar_map EXCEPT ![a] = NoRecord]
  /\ UNCHANGED <<ar_recs, ar_version, ar_pc, ar_frame>>
  /\ UNCHANGED <<aborted, nonArVars>>

\* pair_host_addr, line 19: addr_rec->init(Addr_fld_host_name) = host_name,
\* addr_rec being the record the caller holds for addr; records are made by
\* AddrRecord::create only, which stores them in the table
pair_init(t, host_name, a) ==
  /\ aborted = ""
  /\ ar_version # "none"
  /\ ar_pc[t] = "idle"
  /\ ar_map[a] # NoRecord
  /\ ar_recs[ar_map[a]].inits < MaxInits
  /\ ar_recs' = host_name_init(ar_recs, ar_map[a], host_name)
  /\ ar_frame' = [ar_frame EXCEPT ![t] = [host |-> host_name, addr |-> a, rec |-> ar_map[a]]]
  /\ UNCHANGED <<ar_map, ar_version, ar_pc>>
  /\ UNCHANGED <<aborted, nonArVars>>

ArInit ==
  /\ ar_map = [a \in Addrs |-> NoRecord]
  /\ ar_recs = <<>>
  /\ ar_version = "none"
  /\ ar_pc = [t \in Threads |-> "idle"]
  /\ ar_frame = [t \in Threads |-> NoAddrCall]

(***************************************************************************)
(* Writes to bit fields that share one byte.  writeBit of part_002 and     *)
(* propPutBit work on a plain char with |= and &=, a load followed by a    *)
(* store; writeBit of SharedExtendible.h works on an atomic_char with      *)
(* fetch_or and fetch_and.  None of them takes a lock.                     *)
(***************************************************************************)
\* the bit fields that lie in the byte
ByteBits == 0..(NumByteBits - 1)
NoBitWrite == [bit |-> 0, val |-> FALSE, c |-> {}]
nonBwVars == <<coreVars, lockVars, hdrVars, shVars, sweepVars, hrVars, pairVars, arVars, nwVars, flVars, liVars>>

\* c | mask and c & ~mask, mask = 1 << (offset % 8)
or_mask(c, offset) == c \cup {offset % 8}
and_not_mask(c, offset) == c \ {offset % 8}

\* another thread is inside a write of the same bit field
SameBitBusy(t, offset) ==
  \E u \in Threads \ {t} : bw_pc[u] # "idle" /\ bw_frame[u].bit = offset

\* part_002, writeBit: `char &c` is read for c |= mask or c &= ~mask
writeBit_load(t, offset, val) ==
  /\ aborted = ""
  /\ bw_version \in {"none", "part_002"}
  /\ bw_pc[t] = "idle"
  /\ ~SameBitBusy(t, offset)
  /\ bw_version' = "part_002"
  /\ bw_frame' = [bw_frame EXCEPT ![t] = [bit |-> offset, val |-> val, c |-> bw_byte]]
  /\ bw_pc' = [bw_pc EXCEPT ![t] = "store"]
  /\ UNCHANGED <<bw_byte, bw_last>>
  /\ UNCHANGED <<aborted, nonBwVars>>

\* PropertyBlock.h, propPutBit: hasWriteAccess of PropertyBlock is true for
\* every caller; `char &c` is read for c |= ... or c &= ~...
propPutBit_load(t, offset, val) ==
  /\ aborted = ""
  /\ bw_version \in {"none", "PropertyBlock.h"}
  /\ bw_pc[t] = "idle"
  /\ ~SameBitBusy(t, offset)
  /\ bw_version' = "PropertyBlock.h"
  /\ bw_frame' = [bw_frame EXCEPT ![t] = [bit |-> offset, val |-> val, c |-> bw_byte]]
  /\ bw_pc' = [bw_pc EXCEPT ![t] = "store"]
  /\ UNCHANGED <<bw_byte, bw_last>>
  /\ UNCHANGED <<aborted, nonBwVars>>

\* the second half of c |= mask / c &= ~mask: the byte computed from the
\* value loaded is stored
char_store(t) ==
  /\ aborted = ""
  /\ bw_pc[t] = "store"
  /\ bw_byte' = IF bw_frame[t].val THEN or_mask(bw_frame[t].c, bw_frame[t].bit)
                ELSE and_not_mask(bw_frame[t].c, bw_frame[t].bit)
  /\ bw_last' = [bw_last EXCEPT ![bw_frame[t].bit] = IF bw_frame[t].val THEN 1 ELSE 0]
  /\ bw_pc' = [bw_pc EXCEPT ![t] = "idle"]
  /\ bw_frame' = [bw_frame EXCEPT ![t] = NoBitWrite]
  /\ UNCHANGED bw_version
  /\ UNCHANGED <<aborted, nonBwVars>>

\* SharedExtendible.h, writeBit: c.fetch_or(mask) or c.fetch_and(~mask) on
\* an atomic_char (the mask is written with `offset`, read as field.offset)
writeBit_fetch(t, offset, val) ==
  /\ aborted = ""
  /\ bw_version \in {"none", "SharedExtendible.h"}
  /\ bw_pc[t] = "idle"
  /\ bw_version' = "SharedExtendible.h"
  /\ bw_byte' = IF val THEN or_mask(bw_byte, offset) ELSE and_not_mask(bw_byte, offset)
  /\ bw_last' = [bw_last EXCEPT ![offset] = IF val THEN 1 ELSE 0]
  /\ bw_frame' = [bw_frame EXCEPT ![t] = [bit |-> offset, val |-> val, c |-> bw_byte]]
  /\ UNCHANGED bw_pc
  /\ UNCHANGED <<aborted, nonBwVars>>

\* the bit region is set to 0 when the record is allocated
BwInit ==
  /\ bw_byte = {}
  /\ bw_version = "none"
  /\ bw_pc = [t \in Threads |-> "idle"]
  /\ bw_frame = [t \in Threads |-> NoBitWrite]
  /\ bw_last = [b \in ByteBits |-> 0]

(***************************************************************************)
(* Nested writers: update_host_addr (NextHopDNS.h:59-69) opens the writer  *)
(* of an address's host_name and, while it holds it, the writer of the old *)
(* host's addr_list.  Each writer_ptr locks the std::mutex that            *)
(* copy_swap_write_locks gives for the address of data_ptr.                *)
(***************************************************************************)
nonNwVars == <<coreVars, lockVars, hdrVars, shVars, sweepVars, hrVars, pairVars, arVars, bwVars, flVars, liVars>>

\* the fields thread t holds a writer on
HeldFields(t) == {nw_held[t][i].field : i \in 1..Len(nw_held[t])}

\* writeCopySwap(field) by a thread that may hold writers already;
\* writer_ptr's constructor locks mutexes[&data_ptr % size()].  Another
\* thread's lock is waited for.  A std::mutex the thread itself has locked
\* is locked again: the thread blocks for good, or the process ends.
nested_writeCopySwap(t, field, slot, outcome) ==
  /\ aborted = ""
  /\ nw_pc[t] = "run"
  /\ Len(nw_held[t]) < MaxNest
  /\ field \notin HeldFields(t)
  /\ LET idx == getMutex(NumWriteLocks, slot)
     IN IF nw_locks[idx] = t
        THEN /\ nw_pc' = [nw_pc EXCEPT ![t] = "blocked"]
             /\ aborted' = IF outcome = "terminate" THEN "std::mutex::lock" ELSE aborted
             /\ UNCHANGED <<nw_held, nw_locks>>
        ELSE /\ outcome = "blocked"
             /\ nw_locks[idx] = Free
             /\ nw_locks' = [nw_locks EXCEPT ![idx] = t]
             /\ nw_held' = [nw_held EXCEPT ![t] =
                              Append(@, [field |-> field, slot |-> slot, idx |-> idx])]
             /\ UNCHANGED <<nw_pc, aborted>>
  /\ UNCHANGED <<nw_commits, nonNwVars>>

\* the innermost writer goes out of scope: write_lock is unlocked
nested_writer_dtor(t) ==
  /\ aborted = ""
  /\ nw_pc[t] = "run"
  /\ nw_held[t] # <<>>
  /\ nw_locks' = [nw_locks EXCEPT ![nw_held[t][Len(nw_held[t])].idx] = Free]
  /\ nw_held' = [nw_held EXCEPT ![t] = SubSeq(@, 1, Len(@) - 1)]
  /\ nw_commits' = [nw_commits EXCEPT ![nw_held[t][Len(nw_held[t])].field] =
                       IF @ < MaxCommits THEN @ + 1 ELSE @]
  /\ UNCHANGED nw_pc
  /\ UNCHANGED <<aborted, nonNwVars>>

NwInit ==
  /\ nw_held = [t \in Threads |-> <<>>]
  /\ nw_pc = [t \in Threads |-> "run"]
  /\ nw_locks = [s \in 0..(NumWriteLocks - 1) |-> Free]
  /\ nw_commits = [k \in CowKeys |-> 0]

(***************************************************************************)
(* HostName::free and the lock of its caller.  free requires the caller to *)
(* hold the record's lock (getMutex().lock() first); the caller unlocks    *)
(* once after free has returned.                                           *)
(***************************************************************************)
nonFlVars == <<coreVars, lockVars, hdrVars, shVars, sweepVars, hrVars, pairVars, arVars, bwVars, nwVars, liVars>>

\* HostName::alloc(hostname): part_lock is held for the call; an existing
\* record is counted once more, else a record is made with count 1 and put
\* in the table
alloc(t) ==
  /\ aborted = ""
  /\ fl_pc[t] = "idle"
  /\ fl_lock.owner = Free
  /\ IF fl_in_table
     THEN /\ fl_count < MaxStrong
          /\ fl_count' = fl_count + 1
          /\ UNCHANGED fl_in_table
     ELSE /\ fl_count' = 1
          /\ fl_in_table' = TRUE
  /\ UNCHANGED <<fl_lock, fl_pc, fl_path>>
  /\ UNCHANGED <<aborted, nonFlVars>>

\* the caller of free: host->getMutex().lock()
getMutex_lock(t) ==
  /\ aborted = ""
  /\ fl_pc[t] = "idle"
  /\ fl_in_table
  /\ fl_lock.owner = Free
  /\ fl_lock' = [owner |-> t, depth |-> 1]
  /\ fl_pc' = [fl_pc EXCEPT ![t] = "locked"]
  /\ UNCHANGED <<fl_count, fl_in_table, fl_path>>
  /\ UNCHANGED <<aborted, nonFlVars>>

\* HostName::free(): the count is decremented; while it stays above zero
\* free returns; at zero the record is erased from the table, its property
\* block is destroyed and getMutex().unlock() is called
free(t) ==
  /\ aborted = ""
  /\ fl_pc[t] = "locked"
  /\ IF fl_count = 0
     THEN \* ink_assert(m_strong_ref_count > 0)
          /\ aborted' = "free"
          /\ UNCHANGED <<fl_lock, fl_count, fl_in_table, fl_pc, fl_path>>
     ELSE /\ fl_count' = fl_count - 1
          /\ fl_pc' = [fl_pc EXCEPT ![t] = "freed"]
          /\ IF fl_count - 1 > 0
             THEN /\ fl_path' = [fl_path EXCEPT ![t] = "kept"]
                  /\ UNCHANGED <<fl_lock, fl_in_table>>
             ELSE /\ fl_path' = [fl_path EXCEPT ![t] = "zero"]
                  /\ fl_in_table' = FALSE
                  /\ fl_lock' = IF fl_lock.depth = 1 THEN [owner |-> Free, depth |-> 0]
                                ELSE [fl_lock EXCEPT !.depth = @ - 1]
          /\ UNCHANGED aborted
  /\ UNCHANGED nonFlVars

\* the caller of free: host->getMutex().unlock().  When the thread does not
\* hold the lock any more, the unlock has no effect or releases the lock
\* of whoever holds it.
getMutex_unlock(t, outcome) ==
  /\ aborted = ""
  /\ fl_pc[t] = "freed"
  /\ IF fl_lock.owner = t
     THEN /\ outcome = "released"
          /\ fl_lock' = IF fl_lock.depth = 1 THEN [owner |-> Free, depth |-> 0]
                        ELSE [fl_lock EXCEPT !.depth = @ - 1]
     ELSE fl_lock' = IF outcome = "released" THEN [owner |-> Free, depth |-> 0]
                     ELSE fl_lock
  /\ fl_pc' = [fl_pc EXCEPT ![t] = "idle"]
  /\ UNCHANGED <<fl_count, fl_in_table, fl_path>>
  /\ UNCHANGED <<aborted, nonFlVars>>

FlInit ==
  /\ fl_lock = [owner |-> Free, depth |-> 0]
  /\ fl_count = 0
  /\ fl_in_table = FALSE
  /\ fl_pc = [t \in Threads |-> "idle"]
  /\ fl_path = [t \in Threads |-> "none"]

(***************************************************************************)
(* The lock of a HostName.  alloc locks s_lock_pool.getMutex(getIndex(id)) *)
(* with id the hash of the hostname, a size_t; the constructor stores the  *)
(* same hash in m_lock_idx, a LockPool::Index_t (uint8_t), and getMutex()  *)
(* returns s_lock_pool.getMutex(m_lock_idx), i.e. mutexes[m_lock_idx].     *)
(***************************************************************************)
\* LockPool::Index_t is uint8_t
IndexMod == 256
\* the pool size the sources use for their lock pools
Host_lock_pool_size == 64
PoolSizes == {1, Host_lock_pool_size, IndexMod}
HostIDs == 0..MaxHash
NoLockIdx == [id |-> -1, part_idx |-> 0, m_lock_idx |-> 0]
nonLiVars == <<coreVars, lockVars, hdrVars, shVars, sweepVars, hrVars, pairVars, arVars, bwVars, nwVars, flVars>>

\* conversion of a size_t to Index_t
Index_t(n) == n % IndexMod

\* LockPool::getIndex(key_hash): Index_t, key_hash % size()
getIndex_Index_t(num_locks, key_hash) == Index_t(key_hash % num_locks)

\* LockPool<RWLock> s_lock_pool(num_locks)
s_lock_pool_ctor(num_locks) ==
  /\ aborted = ""
  /\ li_size = 0
  /\ li_size' = num_locks
  /\ UNCHANGED <<li_host, li_mutex>>
  /\ UNCHANGED <<aborted, nonLiVars>>

\* HostName::alloc(hostname) for a host the table does not hold: part_lock
\* is s_lock_pool.getMutex(s_lock_pool.getIndex(id)); new HostName(hostname)
\* initialises m_lock_idx(std::hash<ts::string_view>()(name))
HostName_alloc_new(id) ==
  /\ aborted = ""
  /\ li_size > 0
  /\ li_host' = [id |-> id, part_idx |-> getIndex_Index_t(li_size, id),
                 m_lock_idx |-> Index_t(id)]
  /\ li_mutex' = "none"
  /\ UNCHANGED li_size
  /\ UNCHANGED <<aborted, nonLiVars>>

\* HostName::getMutex(): mutexes[m_lock_idx]; an index past the end of the
\* vector names no lock of the pool
HostName_getMutex ==
  /\ aborted = ""
  /\ li_host # NoLockIdx
  /\ li_mutex = "none"
  /\ li_mutex' = IF li_host.m_lock_idx < li_size THEN "in_pool" ELSE "out_of_range"
  /\ UNCHANGED <<li_size, li_host>>
  /\ UNCHANGED <<aborted, nonLiVars>>

LiInit ==
  /\ li_size = 0
  /\ li_host = NoLockIdx
  /\ li_mutex = "none"

InstInit ==
  /\ inst_live = FALSE
  /\ inst_bits = {}
  /\ inst_bytes = {}
  /\ inst_inits = 0
  /\ inst_destroys = 0
  /\ declared = [init |-> 0, destroy |-> 0, bytes |-> 0, bits |-> 0, props |-> <<>>,
                 zero_init |-> 0, zero_destroy |-> 0]

Init == SchemaInit /\ MapInit /\ CowInit /\ DnsInit /\ HostInit /\ InstInit /\ LockInit /\ HdrInit /\ ShInit /\ SweepInit /\ HrInit /\ PairInit /\ ArInit /\ BwInit /\ NwInit /\ FlInit /\ LiInit

SchemaNext ==
  \/ \E access \in FieldAccessEnum, size \in FieldSizes, name \in Names :
       AddField(access, size, name)
  \/ reset
  \/ call_construct
  \/ call_destruct
  \/ \E n \in PropCounts, size \in PropSizes, init \in Callbacks, destroy \in Callbacks :
       PropBlockDeclare(n, size, init, destroy)
  \/ \E n \in BitCounts : PropBlockDeclareBit(n)
  \/ PropertyBlockCtor
  \/ PropertyBlockDtor
  \/ resetSchema
  \/ propBlockInit
  \/ \E offset \in 0..(num_status_bits + MaxBits), val \in BOOLEAN : propPutBit(offset, val)
  \/ \E name \in Names, val \in BOOLEAN : writeBit(name, val)

SpecSchema == Init /\ [][SchemaNext]_vars

\* a schema under declarations of fields of every size
LayoutNext ==
  \/ \E access \in FieldAccessEnum, size \in LayoutSizes, name \in Names :
       AddField(access, size, name)
  \/ reset
  \/ call_construct
  \/ call_destruct

SpecLayout == Init /\ [][LayoutNext]_vars

\* a HostName with its property block: declarations, construction, reset
\* and destruction
ResetNext ==
  \/ \E n \in PropCounts, size \in PropSizes, init \in Callbacks, destroy \in Callbacks :
       PropBlockDeclare(n, size, init, destroy)
  \/ PropertyBlockCtor
  \/ HostName_reset
  \/ PropertyBlockDtor

ResetSpecInit == Init /\ recordType = "PropertyBlock" /\ cowKind = "COWMap"

SpecReset == ResetSpecInit /\ [][ResetNext]_vars

MapNext ==
  \/ \E t \in Threads, name \in MapOps, key \in Keys : getPartMap(t, name, key)
  \/ \E t \in Threads : find(t)
  \/ \E t \in Threads, val \in 0..MaxHandles : put(t, val)
  \/ \E t \in Threads : pop(t)
  \/ \E t \in Threads : operator_index(t)
  \/ \E t \in Threads, write \in BOOLEAN, val \in 0..MaxHandles, crash \in BOOLEAN :
       UseRef(t, write, val, crash)
  \/ \E t \in Threads : find_or_alloc_find(t)
  \/ \E t \in Threads : find_or_alloc_alloc(t)

MapSpecInit == Init /\ recordType = "SharedExtendible" /\ cowKind = "COWMap"

SpecMap == MapSpecInit /\ [][MapNext]_vars

CowNext ==
  \/ \E t \in Threads, k \in CowKeys : COWMap_get(t, k)
  \/ \E t \in Threads, k \in CowKeys : get_COPYSWAP(t, k)
  \/ \E t \in Threads, k \in CowKeys : writerLock(t, k)
  \/ \E t \in Threads, k \in CowKeys, addr \in StackAddrs : writeCopySwap(t, k, addr)
  \/ \E t \in Threads : Edit(t)
  \/ \E t \in Threads : Writer_dtor_getPartMap(t)
  \/ \E t \in Threads : Writer_dtor_put(t)
  \/ \E t \in Threads, crash \in BOOLEAN : abortCommit(t, crash)
  \/ \E t \in Threads : writer_ptr_dtor_lock(t)
  \/ \E t \in Threads, crash \in BOOLEAN : writer_ptr_dtor_swap(t, crash)
  \/ \E t \in Threads, crash \in BOOLEAN : writer_ptr_abort(t, crash)
  \/ \E t \in Threads, k \in CowKeys, ret \in {"true", "false"} : putTry(t, k, ret)

CowSpecInit == Init /\ recordType = "SharedExtendible"

SpecCow == CowSpecInit /\ [][CowNext]_vars

DnsNext ==
  \/ \E t \in Threads, host_name \in Hosts \cup {UnknownHost}, list \in AddrLists :
       update_host_addr(t, host_name, list)
  \/ \E t \in Threads : update_loop_find(t)
  \/ \E t \in Threads : update_loop_create(t)
  \/ \E t \in Threads : update_commit(t)
  \/ \E host_name \in Hosts, a \in Addrs : pair_host_addr(host_name, a)

DnsSpecInit == Init /\ recordType = "SharedExtendible" /\ cowKind = "COWMap"

SpecDns == DnsSpecInit /\ [][DnsNext]_vars

HostNext ==
  \/ HostName_alloc
  \/ getHost
  \/ \E o \in Records : HostName_free(o)
  \/ \E o \in Records : HostNamePtr_release(o)

HostSpecInit == Init /\ recordType = "PropertyBlock" /\ cowKind = "COWMap"

SpecHost == HostSpecInit /\ [][HostNext]_vars

LockNext ==
  \/ \E num_locks \in 0..MaxLocks : LockPool_ctor(num_locks)
  \/ \E key_hash \in KeyHashes : LockPool_getIndex(key_hash)
  \/ \E t \in Threads, idx \in 0..(MaxLocks - 1) : RWLock_lock_shared(t, idx)
  \/ \E t \in Threads, idx \in 0..(MaxLocks - 1) : RWLock_unlock_shared(t, idx)
  \/ \E t \in Threads, idx \in 0..(MaxLocks - 1) : RWLock_lock(t, idx)
  \/ \E t \in Threads : RWLock_lock_wait(t)
  \/ \E t \in Threads, idx \in 0..(MaxLocks - 1) : RWLock_unlock(t, idx)

LockSpecInit == Init /\ recordType = "PropertyBlock" /\ cowKind = "COWMap"

SpecLock == LockSpecInit /\ [][LockNext]_vars

\* a thread in the busy-wait of lock() keeps being scheduled
SpecLockFair == SpecLock /\ \A t \in Threads : WF_vars(RWLock_lock_wait(t))

HdrNext ==
  \/ \E ok \in [Sides -> BOOLEAN], hdr \in [Sides -> HdrBlocks], prior \in {<<>>, <<"x">>} :
       TxnBegin(ok, hdr, prior)
  \/ print_request_headers_open
  \/ print_request_headers_side("Client", "Server")
  \/ print_request_headers_side("Server", "end")
  \/ print_request_headers_close

HdrSpecInit == Init /\ recordType = "PropertyBlock" /\ cowKind = "COWMap"

SpecHdr == HdrSpecInit /\ [][HdrNext]_vars

ShNext ==
  \/ populateImages
  \/ \E input \in MenuInputs : chooseImage(input)
  \/ \E found \in BOOLEAN : findExistingContainer(found)
  \/ \E running \in BOOLEAN, ok \in BOOLEAN : useExistingContainer(running, ok)
  \/ \E have_image \in BOOLEAN, build_ok \in BOOLEAN, run_ok \in BOOLEAN :
       createImageAndRunContainer(have_image, build_ok, run_ok)

ShSpecInit == Init /\ recordType = "PropertyBlock" /\ cowKind = "COWMap"

SpecSh == ShSpecInit /\ [][ShNext]_vars

HrNext ==
  \/ \E t \in Threads, host_name \in Hosts : create_locked(t, host_name)
  \/ \E t \in Threads, host_name \in Hosts : create_find(t, host_name)
  \/ \E t \in Threads : create_put(t)

HrSpecInit == Init /\ recordType = "PropertyBlock" /\ cowKind = "COWMap"

SpecHr == HrSpecInit /\ [][HrNext]_vars

PairNext ==
  \/ \E t \in Threads, a \in Addrs, slot \in StackAddrs : pair_writeCopySwap(t, a, slot)
  \/ \E t \in Threads : pair_writer_ptr(t)
  \/ \E t \in Threads, a \in Addrs, slot \in StackAddrs : pair_writeCopy(t, a, slot)
  \/ \E t \in Threads, outcome \in {"blocked", "terminate"} : pair_writeCopy_writer_ptr(t, outcome)
  \/ \E t \in Threads, host_name \in {"h1"} : pair_push_back(t, host_name)
  \/ \E t \in Threads : pair_dtor_lock(t)
  \/ \E t \in Threads, crash \in BOOLEAN : pair_dtor_swap(t, crash)

PairSpecInit == Init /\ recordType = "PropertyBlock" /\ cowKind = "COWMap"

SpecPair == PairSpecInit /\ [][PairNext]_vars

ArNext ==
  \/ \E t \in Threads, host_name \in Hosts, a \in Addrs : AddrRecord_find(t, host_name, a)
  \/ \E t \in Threads : AddrRecord_destroy(t)
  \/ \E t \in Threads : AddrRecord_create(t)
  \/ \E t \in Threads : AddrRecord_init(t)
  \/ \E t \in Threads, host_name \in Hosts, a \in Addrs : create_assert(t, host_name, a)
  \/ \E t \in Threads : create_new(t)
  \/ \E t \in Threads, a \in Addrs : AddrRecords_pop(t, a)
  \/ \E t \in Threads, host_name \in Hosts, a \in Addrs : pair_init(t, host_name, a)

ArSpecInit == Init /\ recordType = "PropertyBlock" /\ cowKind = "COWMap"

SpecAddr == ArSpecInit /\ [][ArNext]_vars

BwNext ==
  \/ \E t \in Threads, offset \in ByteBits, val \in BOOLEAN : writeBit_load(t, offset, val)
  \/ \E t \in Threads, offset \in ByteBits, val \in BOOLEAN : propPutBit_load(t, offset, val)
  \/ \E t \in Threads : char_store(t)
  \/ \E t \in Threads, offset \in ByteBits, val \in BOOLEAN : writeBit_fetch(t, offset, val)

BwSpecInit == Init /\ recordType = "PropertyBlock" /\ cowKind = "COWMap"

SpecBits == BwSpecInit /\ [][BwNext]_vars

NwNext ==
  \/ \E t \in Threads, field \in CowKeys, slot \in StackAddrs,
        outcome \in {"blocked", "terminate"} :
       nested_writeCopySwap(t, field, slot, outcome)
  \/ \E t \in Threads : nested_writer_dtor(t)

NwSpecInit == Init /\ recordType = "PropertyBlock" /\ cowKind = "COWMap"

SpecNest == NwSpecInit /\ [][NwNext]_vars

FlNext ==
  \/ \E t \in Threads : alloc(t)
  \/ \E t \in Threads : getMutex_lock(t)
  \/ \E t \in Threads : free(t)
  \/ \E t \in Threads, outcome \in {"released", "ignored"} : getMutex_unlock(t, outcome)

FlSpecInit == Init /\ recordType = "PropertyBlock" /\ cowKind = "COWMap"

SpecFree == FlSpecInit /\ [][FlNext]_vars

LiNext ==
  \/ \E num_locks \in PoolSizes : s_lock_pool_ctor(num_locks)
  \/ \E id \in HostIDs : HostName_alloc_new(id)
  \/ HostName_getMutex

LiSpecInit == Init /\ recordType = "PropertyBlock" /\ cowKind = "COWMap"

SpecIdx == LiSpecInit /\ [][LiNext]_vars

\* the steps of thread t inside put, clear and visit
SweepStep(t) ==
  \/ \E val \in 0..MaxHandles : put(t, val)
  \/ lockAll(t)
  \/ clear_lock(t)
  \/ clear_part(t)
  \/ visit_lock(t)
  \/ \E k \in Keys, done \in BOOLEAN : visit_entry(t, k, done)
  \/ visit_part_end(t)

SweepNext ==
  \/ \E t \in Threads, key \in Keys : getPartMap(t, "put", key)
  \/ \E t \in Threads, val \in 0..MaxHandles : put(t, val)
  \/ \E t \in Threads : clear(t)
  \/ \E t \in Threads : COWMap_clear(t)
  \/ \E t \in Threads : lockAll(t)
  \/ \E t \in Threads : clear_lock(t)
  \/ \E t \in Threads : clear_part(t)
  \/ \E t \in Threads : visit(t)
  \/ \E t \in Threads : visit_lock(t)
  \/ \E t \in Threads, k \in Keys, done \in BOOLEAN : visit_entry(t, k, done)
  \/ \E t \in Threads : visit_part_end(t)

\* a thread inside an operation keeps running, and a thread that waits
\* for a mutex gets it when it is free again and again
SpecSweep ==
  /\ MapSpecInit
  /\ [][SweepNext]_vars
  /\ \A t \in Threads : SF_vars(SweepStep(t))

(***************************************************************************)
(* C1 - Schema freeze.  A field declaration made while an instance of the *)
(* record type is alive (its instance counter is above zero) ends in a    *)
(* fatal assertion and leaves the field set, the region sizes, the        *)
(* offsets and the allocation size as they were.                           *)
(***************************************************************************)
SchemaFreeze ==
  [][ /\ (call'.op = "addField" /\ instance_count > 0)
         => /\ aborted' = "addField"
            /\ UNCHANGED <<fields, mem_size_count, mem_offsets, bit_count, alloc_size>>
      /\ (call'.op \in {"PropBlockDeclare", "PropBlockDeclareBit"} /\ s_instance_count > 0)
         => /\ aborted' = call'.op
            /\ UNCHANGED <<s_properties_total_size, s_bits_size, s_schema>>
    ]_vars

\* a declaration was refused with an instance alive and fields declared
SchemaFreezeWitness ==
  /\ aborted = "addField"
  /\ instance_count > 0
  /\ DOMAIN fields # {}

\* what C2 says of the find_or_alloc calls logged for key k
FoaOnce(k) ==
  /\ Cardinality({e \in foa_log[k] : e[1] = "false"}) = 1
  /\ Cardinality({e[2] : e \in foa_log[k]}) = 1
  /\ Cardinality({p \in DOMAIN part_maps : k \in DOMAIN part_maps[p]}) = 1
  /\ \A e \in foa_log[k] : \A p \in DOMAIN part_maps :
       k \in DOMAIN part_maps[p] => part_maps[p][k] = e[2]

(***************************************************************************)
(* C2 - find_or_alloc allocates once.  Of the find_or_alloc calls made on  *)
(* a key since it was last absent, with no pop, put or operator[] on that  *)
(* key in between, exactly one returned false, all returned the same       *)
(* handle, and the table holds one entry for the key, that handle.         *)
(***************************************************************************)
FindOrAllocOnce ==
  \A k \in Keys : (foa_log[k] # {} /\ ~replaced[k]) => FoaOnce(k)

\* two calls on one key, one allocated and one found, nothing in between
FindOrAllocOnceWitness ==
  \E k \in Keys : \E h \in 1..MaxHandles :
    /\ ~replaced[k]
    /\ {<<"false", h>>, <<"true", h>>} \subseteq foa_log[k]

\* C2 as worded: only a removal of the key between the calls is excluded
FindOrAllocOnceSincePop ==
  \A k \in Keys : foa_log[k] # {} => FoaOnce(k)

(***************************************************************************)
(* C3 - One writer per key.  No two threads hold a writer handle for the   *)
(* same key, or the same COPYSWAP field, at the same time.                 *)
(***************************************************************************)
OneWriterPerKey ==
  \A t \in Threads, u \in Threads :
    (t # u /\ w_pc[t] # "idle" /\ w_pc[u] # "idle")
    => w_frame[t].key # w_frame[u].key

(***************************************************************************)
(* C4 - Snapshot stability.  The snapshot a reader holds keeps the         *)
(* contents it had when get() returned it, whatever writers edit and       *)
(* commit meanwhile, and a reader never holds the clone of a writer that   *)
(* has not published it.                                                   *)
(***************************************************************************)
SnapshotStability ==
  \A t \in Threads :
    r_snap[t] # 0 =>
      /\ r_snap[t] \in DOMAIN heap
      /\ heap[r_snap[t]] = r_seen[t]
      /\ \A w \in Threads : w_pc[w] # "idle" => w_frame[w].clone # r_snap[t]

\* a reader still holds S while an edited S' is what the key publishes
SnapshotStabilityWitness ==
  \E t \in Threads, k \in CowKeys :
    /\ r_snap[t] # 0
    /\ stored[k] \notin {0, r_snap[t]}
    /\ \A j \in CowKeys : stored[j] # r_snap[t]
    /\ heap[stored[k]] # r_seen[t]
    /\ heap[r_snap[t]] = r_seen[t]

(***************************************************************************)
(* C5 - Commit on scope exit.  The step that ends a writer handle's normal *)
(* destruction leaves the handle's clone as the snapshot stored for its    *)
(* key, and leaves the write lock and the publish lock it held unlocked.   *)
(***************************************************************************)
CommitPublishes ==
  [][ \A t \in Threads :
        (w_pc[t] = "commit" /\ w_pc'[t] = "idle")
        => /\ stored'[w_frame[t].key] = w_frame[t].clone
           /\ write_locks'[WriteLockOf(t)] = Free
           /\ access_locks'[AccessLockOf(t)] = Free
    ]_vars

(***************************************************************************)
(* C6 - Readers are not blocked by the edit window.  While a writer is     *)
(* between obtaining its handle and starting its commit, and no other      *)
(* handle is committing, a get() of the same key by another thread is      *)
(* enabled, and what the key publishes is not the writer's clone.          *)
(***************************************************************************)
ReadersNotBlocked ==
  \A w \in Threads, t \in Threads :
    ( /\ aborted = ""
      /\ w # t
      /\ w_pc[w] = "edit"
      /\ w_pc[t] = "idle"
      /\ \A u \in Threads : w_pc[u] # "commit" )
    => /\ ENABLED (COWMap_get(t, w_frame[w].key) \/ get_COPYSWAP(t, w_frame[w].key))
       /\ stored[w_frame[w].key] # w_frame[w].clone

\* a writer has edited its clone, and another thread holds the snapshot the
\* key still publishes, obtained while a writer was editing
ReadersNotBlockedWitness ==
  \E w \in Threads, t \in Threads :
    /\ w # t
    /\ w_pc[w] = "edit"
    /\ heap[w_frame[w].clone] # CloneOf(stored[w_frame[w].key])
    /\ r_during[t]
    /\ r_snap[t] # 0
    /\ r_snap[t] = stored[w_frame[w].key]

(***************************************************************************)
(* C7 - Abort.  The step by which a writer handle is aborted leaves every  *)
(* stored snapshot as it was and leaves the handle's write lock unlocked.  *)
(***************************************************************************)
AbortReleases ==
  [][ \A t \in Threads :
        (w_pc[t] = "edit" /\ w_pc'[t] = "idle")
        => /\ stored' = stored
           /\ write_locks'[WriteLockOf(t)] = Free
    ]_vars

(***************************************************************************)
(* C8 - putTry.  A call that finds the key's write lock taken, or finds a  *)
(* published snapshot other than the expected one, returns false and       *)
(* leaves the map as it was; any other call publishes the new value and    *)
(* returns true.                                                           *)
(***************************************************************************)
PutTryContract ==
  [][ try_seq' # try_seq =>
        LET k == try_out'.key
            t == try_out'.tid
        IN IF write_locks[getMutex(NumWriteLocks, getIndex(Hash(k)))] # Free
              \/ stored[k] # r_snap[t]
           THEN try_out'.ret = "false" /\ stored' = stored
           ELSE try_out'.ret = "true" /\ stored'[k] \notin {0, stored[k]}
    ]_vars

\* the next step of a find, put or pop of thread t on key k
MapOpStep(t, k) ==
  \/ \E name \in {"find", "put", "pop"} : getPartMap(t, name, k)
  \/ find(t)
  \/ \E val \in 0..MaxHandles : put(t, val)
  \/ pop(t)

(***************************************************************************)
(* C9 - Partition independence.  A find, put or pop on a key whose hash    *)
(* falls in a partition that no other thread has locked can always take   *)
(* its next step, whichever other partitions other threads have locked.    *)
(***************************************************************************)
PartitionIndependence ==
  \A t \in Threads, k \in Keys :
    ( /\ aborted = ""
      /\ \/ map_pc[t] = "idle"
         \/ map_pc[t] = "body" /\ map_frame[t].key = k
                               /\ map_frame[t].op \in {"find", "put", "pop"}
      /\ part_access[Hash(k) % NumPartitions] \in {Free, t} )
    => ENABLED MapOpStep(t, k)

\* a put is at work in its partition while another thread is at work in a
\* different partition, each holding the lock of its own
PartitionIndependenceWitness ==
  \E t \in Threads, u \in Threads :
    /\ t # u
    /\ map_frame[t].op = "put" /\ map_pc[t] = "body"
    /\ map_pc[u] = "body"
    /\ Hash(map_frame[t].key) % NumPartitions # Hash(map_frame[u].key) % NumPartitions
    /\ part_access[Hash(map_frame[u].key) % NumPartitions] = u
    /\ part_access[Hash(map_frame[t].key) % NumPartitions] = t

(***************************************************************************)
(* C10 - Locked access.  Whenever a thread reads or writes a sub-map, or a *)
(* value stored in it, it holds the lock of that partition and no other    *)
(* partition lock.                                                         *)
(***************************************************************************)
LockedAccess ==
  [][ \A t \in Threads :
        (map_pc[t] \in {"body", "alloc", "ref"} /\ map_pc'[t] # map_pc[t])
        => {p \in DOMAIN part_access : part_access[p] = t} = {PartOf(t)}
    ]_vars


\* the step by which thread t's update_host_addr completes
UpdateCompletes(t) == dns_pc[t] = "loop" /\ dns_pc'[t] = "idle"

HandleKeepsFields ==
  \A o \in Records : hn_obj[o].handles > 0 => ~hn_obj[o].destroyed

(***************************************************************************)
(* C16 - HostName reference counting.  For every record made, the value of *)
(* m_strong_ref_count is the number of allocs that returned the record     *)
(* minus the number of frees on it; the record is in the host table        *)
(* exactly while that count is above zero, and its fields are torn down    *)
(* exactly when the count is zero.                                         *)
(***************************************************************************)
RefCountExact ==
  \A o \in Records : hn_obj[o].state # "unborn" =>
    /\ hn_obj[o].count = hn_obj[o].refs
    /\ (hn_table = o) <=> (hn_obj[o].count > 0)
    /\ hn_obj[o].destroyed <=> (hn_obj[o].count = 0)


(***************************************************************************)
(* C17 - Schema reset.  Schema::reset and PropertyBlock::resetSchema       *)
(* return false and change nothing of the schema when the instance counter *)
(* is above zero; when it is zero they return true and leave no field      *)
(* definition, no declared byte and no declared bit behind.                *)
(***************************************************************************)
ResetGuarded ==
  [][/\ (call'.op = "reset" /\ instance_count > 0) =>
          (call'.ret = 0 /\ UNCHANGED seVars)
     /\ (call'.op = "reset" /\ instance_count = 0) =>
          (call'.ret = 1 /\ fields' = EmptyMap /\ bit_count' = 0
             /\ mem_size_count' = EmptyMap /\ UNCHANGED instance_count)
     /\ (call'.op = "resetSchema" /\ s_instance_count > 0) =>
          (call'.ret = 0 /\ UNCHANGED pbVars)
     /\ (call'.op = "resetSchema" /\ s_instance_count = 0) =>
          (call'.ret = 1 /\ s_schema' = <<>> /\ s_properties_total_size' = 0
             /\ s_bits_size' = num_status_bits /\ UNCHANGED s_instance_count)]_vars

\* a reset has just succeeded on a schema that had definitions, after the
\* last instance was destroyed
ResetGuardedWitness ==
  /\ call.op \in {"reset", "resetSchema"}
  /\ call.ret = 1
  /\ call.had > 0
  /\ instance_count = 0 /\ s_instance_count = 0
  /\ fields = EmptyMap /\ s_schema = <<>> /\ s_properties_total_size = 0


\* the bytes of the extension regions: per field size the fields declared
\* with it, and the bytes of the packed bits (mem_size_count[0])
RegionBytes ==
  SumOver(DOMAIN mem_size_count \ {0}, mem_size_count) + MapGet(mem_size_count, 0)

(***************************************************************************)
(* C20 - Allocation size.  In every state of the schema the bytes          *)
(* operator new requests for an instance (schema.alloc_size) are the size  *)
(* of the base type plus the bytes of all extension regions, and never     *)
(* fewer than the size of the base type.                                   *)
(***************************************************************************)
AllocSizeExact ==
  recordType = "SharedExtendible" =>
    /\ alloc_size >= SizeofDerived
    /\ alloc_size = SizeofDerived + RegionBytes


CumulativeLayout ==
  [][/\ (call'.op = "PropBlockDeclare" /\ aborted' = "") =>
          call'.ret = SizeofDerived + declared.bytes
     /\ (call'.op = "PropBlockDeclareBit" /\ aborted' = "") =>
          (call'.ret = declared.bits + num_status_bits
             /\ UNCHANGED s_properties_total_size)]_vars

\* a property was declared after another property and some bits, and got
\* the offset right behind the first property
CumulativeLayoutWitness ==
  /\ call.op = "PropBlockDeclare"
  /\ declared.bits > 0
  /\ declared.bytes = 8
  /\ call.ret = SizeofDerived + 4

(***************************************************************************)
(* C22 - Default zero-initialization.  On an instance that has just been   *)
(* constructed, every byte of every property declared with null init and   *)
(* destroy callbacks is zero, and every declared bit reads false.          *)
(***************************************************************************)
ZeroInitialized ==
  [][(call'.op = "PropertyBlock" /\ ~inst_live /\ inst_live') =>
       /\ \A i \in 1..Len(declared.props) :
            LET prop == declared.props[i]
            IN (prop.init = "null" /\ prop.destroy = "null") =>
                 \A b \in prop.offset..(prop.offset + prop.count * prop.size - 1) :
                   b \notin inst_bytes'
       /\ \A b \in num_status_bits..(s_bits_size - 1) :
            ~propGetBit(inst_bits', b)]_vars

\* an instance has just been constructed in memory that was not clean, of
\* a type with declared bits, a property without callbacks and a property
\* whose init callback wrote its element
ZeroInitializedWitness ==
  /\ call.op = "PropertyBlock"
  /\ call.dirty
  /\ inst_live
  /\ s_bits_size > num_status_bits
  /\ inst_bytes # {}
  /\ \E i \in 1..Len(declared.props) :
       declared.props[i].init = "null" /\ declared.props[i].destroy = "null"

(***************************************************************************)
(* C23 - LockPool of zero locks.  No LockPool with zero locks ever exists, *)
(* and getIndex and getMutex never compute a hash modulo 0.                *)
(***************************************************************************)
NoEmptyPool ==
  /\ pool_built => pool_size > 0
  /\ pool_ret.modulus # 0

\* the thread is inside lock() on an RWLock it holds a read lock of
Upgrading(t) ==
  /\ lk_frame[t].pc = "spin"
  /\ rd_held[t][lk_frame[t].idx] > 0

(***************************************************************************)
(* C24 - RWLock upgrade hazard.  A thread that holds a read lock of an     *)
(* RWLock and calls lock() on it holds the exclusive lock and waits with   *)
(* the reader counter above zero; it never leaves lock() with the write    *)
(* lock, and the wait ends in the assertion at the iteration ceiling.      *)
(***************************************************************************)
UpgradeHazard ==
  /\ [](\A t \in Threads :
          Upgrading(t) =>
            /\ mutexes[lk_frame[t].idx].owner = t
            /\ mutexes[lk_frame[t].idx].readers > 0)
  /\ [][\A t \in Threads : Upgrading(t) => lk_frame'[t].pc = "spin"]_vars
  /\ \A t \in Threads : Upgrading(t) ~> (aborted = "RWLock::lock")

\* the assertion has tripped at the ceiling in a thread that called lock()
\* while it held a read lock of the same RWLock
UpgradeHazardWitness ==
  /\ aborted = "RWLock::lock"
  /\ \E t \in Threads : Upgrading(t) /\ lk_frame[t].iter = MaxSpin

\* what print_request_headers has written to the stream, and the tags in it
Appended == SubSeq(output, txn.before + 1, Len(output))
TagsAppended == SelectSeq(Appended, LAMBDA x : x \in Tags)

(***************************************************************************)
(* C25 - Header-dump resilience.  Whichever of the client and the server   *)
(* request can be retrieved, print_request_headers leaves what the stream  *)
(* held alone and appends one <RequestHeaders> block that holds, in this   *)
(* order, a <Client> section exactly if the client request was retrieved   *)
(* and a <Server> section exactly if the server request was retrieved; a   *)
(* header handle is obtained and released once per retrieved request.      *)
(***************************************************************************)
HeaderDumpResilient ==
  hdr_pc = "done" =>
    /\ \A i \in 1..txn.before : output[i] = "x"
    /\ Appended[1] = "<RequestHeaders>\n"
    /\ Appended[Len(Appended)] = "</RequestHeaders>\n"
    /\ TagsAppended =
         <<"<RequestHeaders>\n">>
           \o (IF txn.ok["Client"] THEN <<"<Client>\n", "</Client>\n">> ELSE <<>>)
           \o (IF txn.ok["Server"] THEN <<"<Server>\n", "</Server>\n">> ELSE <<>>)
           \o <<"</RequestHeaders>\n">>
    /\ \A side \in Sides :
         /\ mloc.got[side] = (IF txn.ok[side] THEN 1 ELSE 0)
         /\ mloc.released[side] = mloc.got[side]

\* the dump is complete for a transaction whose client request could be
\* retrieved and whose server request could not, on a stream that held text
HeaderDumpResilientWitness ==
  /\ hdr_pc = "done"
  /\ txn.ok["Client"] /\ ~txn.ok["Server"]
  /\ txn.before > 0
  /\ Len(TagsAppended) = 4
  /\ Len(Appended) > 4

(***************************************************************************)
(* C26 - Menu abort.  Once the selection step of docker_setup.sh has ended *)
(* with an empty selection, the script has exited with status 0 and no     *)
(* docker build, run, exec or start command has been executed.             *)
(***************************************************************************)
MenuAbort ==
  (sh_pc \notin {"main", "chooseImage"} /\ ImageSelection = <<>>) =>
    /\ sh_pc = "exited"
    /\ exit_status = 0
    /\ docker_log \cap Launching = {}

\* the menu was shown again once and then answered with nothing usable
MenuAbortWitness ==
  /\ sh_pc = "exited"
  /\ ImageSelection = <<>>
  /\ Len(Images) > 0
  /\ prompts > 0
  /\ exit_status = 0

(***************************************************************************)
(* C27 - clear() terminates.  A call of PartitionedMap::clear() or         *)
(* COWMap::clear() returns; when it returns it has cleared every           *)
(* partition, and the thread holds no write lock.                          *)
(***************************************************************************)
ClearCompletes ==
  /\ \A t \in Threads :
       (map_pc[t] \in {"lockAll", "clear", "clear_body"}) ~> (map_pc[t] = "idle")
  /\ [][\A t \in Threads :
          (map_pc[t] = "clear" /\ map_pc'[t] = "idle") =>
            /\ sweep'[t].cleared = 0..(NumPartitions - 1)
            /\ \A l \in DOMAIN write_locks : write_locks'[l] # t]_vars

(***************************************************************************)
(* C28 - visit().  A call of PartitionedMap::visit(callback) invokes the   *)
(* callback at most once per entry, returns at once when the callback      *)
(* says done, and otherwise returns after it has iterated every partition. *)
(***************************************************************************)
VisitOnce ==
  /\ [](\A t \in Threads, k \in Keys : sweep[t].visits[k] <= 1)
  /\ \A t \in Threads : (map_pc[t] \in {"visit", "visit_body"}) ~> (map_pc[t] = "idle")
  /\ [][\A t \in Threads :
          (map_pc[t] = "visit_body" /\ sweep'[t].done) => map_pc'[t] = "idle"]_vars
  /\ [][\A t \in Threads :
          (map_pc[t] = "visit" /\ map_pc'[t] = "idle") =>
            sweep'[t].walked = 0..(NumPartitions - 1)]_vars

(***************************************************************************)
(* C29 - HostRecord::create is a find-or-add.  All calls of create for a   *)
(* host name return the same record, and that record is the one the host   *)
(* table holds for the name: no record handed to a caller has been         *)
(* replaced in the table or is missing from it.                            *)
(***************************************************************************)
CreateFindOrAdd ==
  \A h \in Hosts :
    /\ Cardinality(hr_rets[h]) <= 1
    /\ \A r \in hr_rets[h] : hr_map[h] = r

\* C30: no lost update on a COPYSWAP field.  When two threads have each
\* appended a different address to the host's addr_list through
\* pair_host_addr and both calls have returned, the published list holds
\* both addresses.
PairNoLostUpdate ==
  \A t, u \in Threads : \A a \in pa_done[t], b \in pa_done[u] :
    (t # u /\ a # b /\ pa_pc[t] = "idle" /\ pa_pc[u] = "idle" /\ aborted = "")
      => {a, b} \subseteq Listed(pa_field)

\* C31: the constant host_name of an AddrRecord is written through init
\* exactly once and before the record is visible: every record in the
\* address table has had its one init, no record has had more than one, and
\* no init was applied to a record that was in the table.
InitOnceBeforeVisible ==
  \A r \in DOMAIN ar_recs :
    /\ ar_recs[r].inits <= 1
    /\ ~ar_recs[r].late
    /\ InTable(r) => ar_recs[r].inits = 1

\* C32: bit-field writes are atomic per bit.  Whenever no write of a bit
\* field is in progress, the bit holds the value of the last write of that
\* field that returned (0 if there was none), whatever other threads wrote
\* to the other bits of the byte in the meantime.
BitWritesKept ==
  \A b \in ByteBits :
    (\A t \in Threads : bw_pc[t] = "idle" \/ bw_frame[t].bit # b)
      => ((b \in bw_byte) <=> (bw_last[b] = 1))

NoSelfBlock ==
  /\ \A t \in Threads : nw_pc[t] # "blocked"
  /\ aborted # "std::mutex::lock"

\* C35: HostName::free leaves the record's lock as it found it.  A thread
\* for which free has returned and which has not unlocked yet still holds
\* the record's lock, whether the count stayed above zero or reached zero.
FreeKeepsLock ==
  \A t \in Threads : fl_pc[t] = "freed" => fl_lock.owner = t

\* C36: the lock index a HostName stores at construction is a valid index
\* into the lock pool and is the index of the lock alloc takes for that
\* hostname, for every hash value.
LockIdxValid ==
  li_host # NoLockIdx =>
    /\ li_host.m_lock_idx < li_size
    /\ li_host.m_lock_idx = li_host.part_idx

(***************************************************************************)
(* C37 - reset re-initialises the property block.  A HostName::reset runs  *)
(* every registered destroy callback and then every registered init        *)
(* callback once more, and the later destruction of the record runs the    *)
(* destroy callbacks again, once.                                          *)
(***************************************************************************)
ResetReinitializes ==
  [][/\ call'.op = "HostName::reset" =>
          /\ inst_destroys' = inst_destroys + DestroyBlocks
          /\ inst_inits' = inst_inits + InitBlocks
     /\ (inst_live /\ ~inst_live') => inst_destroys' = inst_destroys + DestroyBlocks]_vars

(***************************************************************************)
(* C38: for every registered non-bit field, the address at which the       *)
(* instance constructor and destructor run the field's construct and       *)
(* destruct functions is the address the field's accessors read and write. *)
(***************************************************************************)
ConstructAtAccessor ==
  call.op \in {"construct", "destruct"} =>
    \A n \in DOMAIN fields :
      fields[n].access # "BIT" => ConstructAddress(n) = AccessorAddress(n)

ConstructAtAccessorWitness ==
  /\ call.op = "construct"
  /\ \E n \in DOMAIN fields : fields[n].access # "BIT"

(***************************************************************************)
(* C39: after any sequence of addField calls the byte ranges of the        *)
(* non-bit fields and the bit region are pairwise disjoint and lie inside  *)
(* the allocation of an instance, and every bit field denotes its own bit  *)
(* inside the bit region, the i-th declared bit field being bit i-1.       *)
(***************************************************************************)
NonBitFields == {n \in DOMAIN fields : fields[n].access # "BIT"}

\* the bytes of an instance the accessors of field n read and write
FieldRange(n) == AccessorAddress(n) .. (AccessorAddress(n) + fields[n].size - 1)

\* the bytes readBit and writeBit address
BitRegion ==
  MapGet(mem_offsets, 0) .. (MapGet(mem_offsets, 0) + MapGet(mem_size_count, 0) - 1)

\* the bytes operator new allocates
Allocation == 0 .. (alloc_size - 1)

LayoutDisjoint ==
  /\ BitRegion \subseteq Allocation
  /\ \A n \in NonBitFields :
       /\ FieldRange(n) \subseteq Allocation
       /\ FieldRange(n) \cap BitRegion = {}
       /\ \A m \in NonBitFields \ {n} : FieldRange(n) \cap FieldRange(m) = {}
  /\ \A n \in BitFields :
       /\ fields[n].offset \div 8 < MapGet(mem_size_count, 0)
       /\ \A m \in BitFields \ {n} : fields[m].offset # fields[n].offset

FieldsDisjoint ==
  [][(call'.op = "addField" /\ aborted' = "") =>
       /\ LayoutDisjoint'
       /\ bit_count' # bit_count => call'.ret = bit_count]_vars

FieldsDisjointWitness ==
  /\ call.op = "addField"
  /\ aborted = ""
  /\ bit_count = 2
  /\ NonBitFields # {}

(***************************************************************************)
(* C40: after PropBlockDeclare<T>(prop_count, init, destroy) with          *)
(* prop_count = 0 and non-null callbacks, init is still called once for    *)
(* every instance constructed afterwards and destroy once for every such   *)
(* instance destroyed.                                                     *)
(***************************************************************************)
ZeroCountCallbacks ==
  [][recordType = "PropertyBlock" =>
       /\ (declared.zero_init > 0 /\ ~inst_live /\ inst_live') =>
            inst_inits' = declared.init + declared.zero_init
       /\ (declared.zero_destroy > 0 /\ inst_live /\ ~inst_live') =>
            inst_destroys' = declared.destroy + declared.zero_destroy]_vars

====
